---- MODULE Spec2Model ----
(***************************************************************************)
(* Model of the BSV Bank core services: the payment-channel service        *)
(* (core/payment-channel-service/src/main.rs), the blockchain monitor      *)
(* (core/blockchain-monitor/src/main.rs) and the verification functions    *)
(* of the SPV service (core/spv-service/src/main.rs).                      *)
(*                                                                         *)
(* Durable storage is the tables of each service.  Every HTTP handler and  *)
(* every background task is a process that runs from one storage or        *)
(* indexer call to the next; every such call is one atomic step and        *)
(* returns Ok (dbok, wocok) or Err.                                        *)
(***************************************************************************)
EXTENDS Integers, Sequences, FiniteSets, Bags, TLC

\* ------------------------------------------------------------------ bounds
MaxReqs == 3
MaxTime == 2
MaxChannels == 1
\* blockchain-monitor: HTTP requests taken, changes of the indexer's chain
MaxMonitorReqs == 2
MaxChainEvents == 2
\* the configured capacity of the transaction cache
tx_cache_capacity == 1

\* ------------------------------------------------------- program constants
\* default_timeout(): timeout_blocks when the request omits it
default_timeout == 144
\* INTERVAL '1 hour' of check_timeouts; the clock `now` counts hours
DisputeInterval == 1
\* column default of payment_channels.sequence_number
DefaultSequenceNumber == 0

\* --------------------------------------------------------------- input sets
Paymails == {"alice", "bob", "carol"}
ChannelIds == 1..MaxChannels

\* Option<T>: <<>> is None / NULL, <<v>> is Some(v)
None == <<>>
Some(v) == <<v>>

\* closed_at and last_payment_at are written with NOW() and read by no
\* condition of the service: the model keeps whether they are written
Written == Some("NOW()")

OpenChannelRequests ==
    { [party_a_paymail |-> "alice", party_b_paymail |-> "bob",
       initial_balance_a |-> 2, initial_balance_b |-> 1, timeout_blocks |-> default_timeout],
      [party_a_paymail |-> "alice", party_b_paymail |-> "alice",
       initial_balance_a |-> 2, initial_balance_b |-> 1, timeout_blocks |-> default_timeout],
      [party_a_paymail |-> "alice", party_b_paymail |-> "bob",
       initial_balance_a |-> -1, initial_balance_b |-> 1, timeout_blocks |-> default_timeout],
      [party_a_paymail |-> "alice", party_b_paymail |-> "bob",
       initial_balance_a |-> 2, initial_balance_b |-> 1, timeout_blocks |-> 0] }

PayReq(f, t, a) == [from_paymail |-> f, to_paymail |-> t, amount_satoshis |-> a]

SendPaymentRequests ==
    { PayReq("alice", "bob", 1), PayReq("bob", "alice", 1), PayReq("alice", "bob", 3),
      PayReq("alice", "bob", 0), PayReq("alice", "alice", 1), PayReq("carol", "bob", 1),
      PayReq("alice", "carol", 1) }

VARIABLES
    payment_channels,   \* table payment_channels: channel_id -> row
    channel_payments,   \* table channel_payments: set of rows
    channel_states,     \* table channel_states: set of rows
    in_flight,          \* the handlers suspended at a storage call: a bag of
                        \* [op, pc, arg, loc] (handler, position, request, locals)
    served,             \* the number of HTTP requests the server has taken
    last_response,      \* the HTTP response that the last step sent, if any
    now,                \* NOW() / Utc::now(), in hours
    \* blockchain-monitor
    blockchain_transactions, \* table blockchain_transactions: txid -> row
    confirmation_events,     \* table confirmation_events: set of rows
    watched_addresses_table, \* table watched_addresses: set of addresses
    watched_addresses,       \* AppState.watched_addresses, the in-memory set
    tx_cache,                \* AppState.tx_cache: txid -> Transaction
    woc_confirmations,       \* the indexer: txid -> confirmations it reports
    chain_events,            \* the number of changes of the indexer's chain
    monitor_tasks,           \* the poll loop and the suspended handlers: a bag
                             \* of [op, pc, arg, loc]
    monitor_served,          \* the number of HTTP requests the monitor has taken
    monitor_response,        \* the HTTP response that the last step sent, if any
    \* spv-service
    spv_request,             \* the arguments given to a verification function
    spv_result,              \* its result, once it has returned
    merkle_proofs,           \* table merkle_proofs: txid -> row
    block_headers,           \* table block_headers: height -> row
    woc_chain,               \* the indexer: the branch mark of the block at each height
    woc_reorgs,              \* the number of reorganisations of the indexer's chain
    spv_served,              \* the number of HTTP requests spv-service has taken
    spv_response,            \* the HTTP response that the last step sent, if any
    \* transaction-builder
    tx_request,              \* the request given to a handler
    tx_response,             \* its response, once it has answered
    \* common: rate_limit
    entries,                 \* RateLimiter.entries: rate key -> timestamps
    unix_now,                \* SystemTime::now(), in seconds
    limiter_checks,          \* the number of calls of check_rate_limit
    limiter_result,          \* what the last call returned, if the last step was a call
    admitted                 \* the calls that returned Ok: (endpoint, key) -> timestamps

channel_vars == <<payment_channels, channel_payments, channel_states, in_flight, served,
                  last_response, now>>

monitor_vars == <<blockchain_transactions, confirmation_events, watched_addresses_table,
                  watched_addresses, tx_cache, woc_confirmations, chain_events,
                  monitor_tasks, monitor_served, monitor_response>>

verifier_vars == <<spv_request, spv_result>>

spv_vars == <<merkle_proofs, block_headers, woc_chain, woc_reorgs, spv_served, spv_response>>

builder_vars == <<tx_request, tx_response>>

limiter_vars == <<entries, unix_now, limiter_checks, limiter_result, admitted>>

vars == <<channel_vars, monitor_vars, verifier_vars, spv_vars, builder_vars, limiter_vars>>

\* what the steps of one service leave alone
except_channel == <<monitor_vars, verifier_vars, spv_vars, builder_vars, limiter_vars>>
except_monitor == <<channel_vars, verifier_vars, spv_vars, builder_vars, limiter_vars>>
except_verifier == <<channel_vars, monitor_vars, spv_vars, builder_vars, limiter_vars>>
except_spv == <<channel_vars, monitor_vars, verifier_vars, builder_vars, limiter_vars>>
except_builder == <<channel_vars, monitor_vars, verifier_vars, spv_vars, limiter_vars>>
except_limiter == <<channel_vars, monitor_vars, verifier_vars, spv_vars, builder_vars>>

\* ------------------------------------------------------------ HTTP plumbing
Response(code, error, body) == [code |-> code, error |-> error, body |-> body]

\* create_error_response: 400 Bad Request with an error kind
create_error_response(error) == Response(400, error, <<>>)

NoResponse == [op |-> "none", resp |-> Response(0, "", <<>>)]

\* the server takes a request and runs its handler to the first storage call
Arrive ==
    /\ served < MaxReqs
    /\ served' = served + 1

\* the handler returns in its first step: the response goes out
Return(op, resp) ==
    /\ Arrive
    /\ in_flight' = in_flight
    /\ last_response' = [op |-> op, resp |-> resp]

\* the handler suspends in its first step, at its next storage call
Await(op, pc, arg, loc) ==
    /\ Arrive
    /\ in_flight' = in_flight (+) SetToBag({[op |-> op, pc |-> pc, arg |-> arg, loc |-> loc]})
    /\ last_response' = NoResponse

\* the suspended handler h returns: the response goes out
Finish(h, resp) ==
    /\ in_flight' = in_flight (-) SetToBag({h})
    /\ last_response' = [op |-> h.op, resp |-> resp]
    /\ UNCHANGED served

\* the suspended handler h suspends again, at its next storage call
Goto(h, pc, loc) ==
    /\ in_flight' = (in_flight (-) SetToBag({h})) (+) SetToBag({[h EXCEPT !.pc = pc, !.loc = loc]})
    /\ last_response' = NoResponse
    /\ UNCHANGED served

\* the handlers suspended at pc
Suspended(pc) == {h \in BagToSet(in_flight) : h.pc = pc}

\* Uuid::new_v4(): an identifier that no settlement of the system carries
SettlementUuids ==
    {payment_channels[cid].settlement_txid[1][2] :
        cid \in {c \in DOMAIN payment_channels : payment_channels[c].settlement_txid # None}}
      \cup UNION {{c.settlement_txid[2] : c \in h.loc.closed_channels} : h \in Suspended("sweep")}

NewUuid == CHOOSE n \in 1..(Cardinality(SettlementUuids) + 1) :
               /\ n \notin SettlementUuids
               /\ \A m \in 1..(n - 1) : m \in SettlementUuids

ChannelInit ==
    /\ payment_channels = <<>>
    /\ channel_payments = {}
    /\ channel_states = {}
    /\ in_flight = EmptyBag
    /\ served = 0
    /\ last_response = NoResponse
    /\ now = 0

\* the wall clock advances
Tick ==
    /\ now < MaxTime
    /\ now' = now + 1
    /\ last_response' = NoResponse
    /\ UNCHANGED <<payment_channels, channel_payments, channel_states, in_flight, served>>

\* ------------------------------------------------------------- open_channel
\* generate_channel_id: a hash of the parties and the nanosecond clock, unique
generate_channel_id == Cardinality(DOMAIN payment_channels) + 1

\* mutant: the INSERT binds only the first balance, current_balance_b stays 0
NewChannel_NoBalanceB(req) ==
    [ party_a_paymail |-> req.party_a_paymail,
      party_b_paymail |-> req.party_b_paymail,
      initial_balance_a |-> req.initial_balance_a,
      initial_balance_b |-> req.initial_balance_b,
      current_balance_a |-> req.initial_balance_a,
      current_balance_b |-> 0,
      status |-> "Open",
      sequence_number |-> DefaultSequenceNumber,
      timeout_blocks |-> req.timeout_blocks,
      closed_at |-> None,
      last_payment_at |-> None,
      settlement_txid |-> None,
      funding_txid |-> None,
      funding_confirmations |-> None,
      settlement_confirmations |-> None,
      updated_at |-> now ]

\* the row of INSERT INTO payment_channels ... VALUES ($1,$2,$3,$4,$5,$4,$5,'Open',$6)
NewChannel(req) ==
    [ party_a_paymail |-> req.party_a_paymail,
      party_b_paymail |-> req.party_b_paymail,
      initial_balance_a |-> req.initial_balance_a,
      initial_balance_b |-> req.initial_balance_b,
      current_balance_a |-> req.initial_balance_a,
      current_balance_b |-> req.initial_balance_b,
      status |-> "Open",
      sequence_number |-> DefaultSequenceNumber,
      timeout_blocks |-> req.timeout_blocks,
      closed_at |-> None,
      last_payment_at |-> None,
      settlement_txid |-> None,
      funding_txid |-> None,
      funding_confirmations |-> None,
      settlement_confirmations |-> None,
      updated_at |-> now ]

\* open_channel up to and including the INSERT INTO payment_channels
OpenChannel(req, dbok) ==
    /\ IF req.party_a_paymail = req.party_b_paymail
       THEN /\ Return("open", create_error_response("InvalidRequest"))
            /\ UNCHANGED payment_channels
       ELSE IF req.initial_balance_a < 0 \/ req.initial_balance_b < 0
       THEN /\ Return("open", create_error_response("InvalidBalance"))
            /\ UNCHANGED payment_channels
       ELSE IF req.timeout_blocks <= 0
       THEN /\ Return("open", create_error_response("InvalidTimeout"))
            /\ UNCHANGED payment_channels
       ELSE IF ~dbok
       THEN /\ Return("open", create_error_response("DatabaseError"))
            /\ UNCHANGED payment_channels
       ELSE /\ generate_channel_id \in ChannelIds
            /\ payment_channels' = payment_channels @@ (generate_channel_id :> NewChannel(req))
            /\ Await("open", "open_state", req, [channel_id |-> generate_channel_id])
    /\ UNCHANGED <<channel_payments, channel_states, now>>

\* open_channel: INSERT INTO channel_states (result ignored), then respond
OpenChannelState(h, dbok) ==
    /\ h \in Suspended("open_state")
    /\ channel_states' =
         IF dbok
         THEN channel_states \cup
                { [channel_id |-> h.loc.channel_id, sequence_number |-> 0,
                   balance_a |-> h.arg.initial_balance_a,
                   balance_b |-> h.arg.initial_balance_b] }
         ELSE channel_states
    /\ Finish(h, Response(200, "", h.loc))
    /\ UNCHANGED <<payment_channels, channel_payments, now>>

\* ------------------------------------------------------------- send_payment
\* The stored procedure process_channel_payment(channel_id, from, to, amount,
\* memo): one atomic storage transaction under the row lock of the channel.
\* It raises an error, or returns the new channel row, the audit row and the
\* JSON result {success, payment_id, sequence_number, balance_a, balance_b}.
ProcError(msg) == [ok |-> FALSE, msg |-> msg]

\* mutant: only a closed channel refuses payments
ProcStatusOk_NotClosed(ch) == ch.status # "Closed"

\* precondition: status \in {Open, Active}
ProcStatusOk(ch) == ch.status \in {"Open", "Active"}

\* precondition: {from, to} = {party_a, party_b}
ProcParties(ch, from, to) == {from, to} = {ch.party_a_paymail, ch.party_b_paymail}

\* precondition: payer's balance >= amount
ProcHasFunds(have, amount) == have >= amount

\* mutant: the sequence is written back unchanged
ProcNextSequence_Same(ch) == ch.sequence_number

\* effect: increments sequence by 1
ProcNextSequence(ch) == ch.sequence_number + 1

\* mutant: the balances are computed as if party_a always paid
ProcBalances_AlwaysA(ch, from, amount) ==
    [a |-> ch.current_balance_a - amount, b |-> ch.current_balance_b + amount]

\* effect: decrements the payer's balance, increments the payee's balance
ProcBalances(ch, from, amount) ==
    IF from = ch.party_a_paymail
    THEN [a |-> ch.current_balance_a - amount, b |-> ch.current_balance_b + amount]
    ELSE [a |-> ch.current_balance_a + amount, b |-> ch.current_balance_b - amount]

process_channel_payment(channels, cid, from, to, amount, payment_id) ==
    IF cid \notin DOMAIN channels THEN ProcError("not found")
    ELSE LET ch == channels[cid]
             have == IF from = ch.party_a_paymail THEN ch.current_balance_a
                                                  ELSE ch.current_balance_b
             bal == ProcBalances(ch, from, amount)
             seq == ProcNextSequence(ch)
         IN  IF ~ProcStatusOk(ch) THEN ProcError("not active")
             ELSE IF ~ProcParties(ch, from, to) THEN ProcError("not a party")
             ELSE IF amount <= 0 THEN ProcError("invalid amount")
             ELSE IF ~ProcHasFunds(have, amount) THEN ProcError("Insufficient balance")
             ELSE [ ok |-> TRUE,
                    channel |-> [ch EXCEPT !.current_balance_a = bal.a,
                                           !.current_balance_b = bal.b,
                                           !.sequence_number = seq,
                                           !.status = "Active",
                                           !.last_payment_at = Written],
                    payment |-> [ id |-> payment_id, channel_id |-> cid,
                                  from_paymail |-> from, to_paymail |-> to,
                                  amount_satoshis |-> amount, sequence_number |-> seq,
                                  balance_a_after |-> bal.a, balance_b_after |-> bal.b,
                                  processing_time_ms |-> None ],
                    result |-> [ success |-> TRUE, payment_id |-> payment_id,
                                 sequence_number |-> seq,
                                 balance_a |-> bal.a, balance_b |-> bal.b ] ]

\* mutant: the "not a party" test comes before the "Insufficient balance" test
\* and matches on "balance"
PaymentErrorResponse_Shadowed(error_msg) ==
    IF error_msg = "not found" THEN Response(404, "ChannelNotFound", <<>>)
    ELSE IF error_msg = "not active" THEN create_error_response("ChannelInactive")
    ELSE IF error_msg \in {"not a party", "Insufficient balance"}
    THEN Response(403, "Unauthorized", <<>>)
    ELSE create_error_response("PaymentError")

\* send_payment, Err(e) arm: the error kind is chosen by the first substring
\* that the error message contains
PaymentErrorResponse(error_msg) ==
    IF error_msg = "not found" THEN Response(404, "ChannelNotFound", <<>>)
    ELSE IF error_msg = "not active" THEN create_error_response("ChannelInactive")
    ELSE IF error_msg = "Insufficient balance" THEN create_error_response("InsufficientBalance")
    ELSE IF error_msg = "not a party" THEN Response(403, "Unauthorized", <<>>)
    ELSE create_error_response("PaymentError")

\* Uuid of the payment row: an identifier that no row of the log carries
NewPaymentId == Cardinality(channel_payments) + 1

\* send_payment up to and including SELECT process_channel_payment(...) and
\* the match on its result.  The clock counts hours: the milliseconds between
\* start_time and the result are 0 on it.
SendPayment(cid, req, dbok) ==
    /\ LET arg == [channel_id |-> cid, request |-> req]
           start_time == now
           res == IF dbok
                  THEN process_channel_payment(payment_channels, cid, req.from_paymail,
                           req.to_paymail, req.amount_satoshis, NewPaymentId)
                  ELSE ProcError("connection closed")
       IN  IF req.amount_satoshis <= 0
           THEN /\ Return("pay", create_error_response("InvalidAmount"))
                /\ UNCHANGED <<payment_channels, channel_payments>>
           ELSE IF req.from_paymail = req.to_paymail
           THEN /\ Return("pay", create_error_response("InvalidRequest"))
                /\ UNCHANGED <<payment_channels, channel_payments>>
           ELSE IF ~res.ok
           THEN /\ Return("pay", PaymentErrorResponse(res.msg))
                /\ UNCHANGED <<payment_channels, channel_payments>>
           ELSE /\ payment_channels' = [payment_channels EXCEPT ![cid] = res.channel]
                /\ channel_payments' = channel_payments \cup {res.payment}
                /\ IF ~res.result.success
                   THEN Return("pay", create_error_response("ProcessingError"))
                   ELSE Await("pay", "pay_time", arg,
                              [payment_data |-> res.result,
                               processing_time |-> now - start_time])
    /\ UNCHANGED <<channel_states, now>>

\* send_payment: UPDATE channel_payments SET processing_time_ms (result
\* ignored), then the PaymentResponse
SendPaymentTime(h, dbok) ==
    /\ h \in Suspended("pay_time")
    /\ LET data == h.loc.payment_data IN
       /\ channel_payments' =
            IF dbok
            THEN { IF p.id = data.payment_id
                   THEN [p EXCEPT !.processing_time_ms = Some(h.loc.processing_time)]
                   ELSE p : p \in channel_payments }
            ELSE channel_payments
       /\ Finish(h, Response(200, "", [payment_id |-> data.payment_id,
                                       sequence_number |-> data.sequence_number,
                                       balance_a |-> data.balance_a,
                                       balance_b |-> data.balance_b]))
    /\ UNCHANGED <<payment_channels, channel_states, now>>

\* ------------------------------------------------------------ close_channel
\* the WHERE clause of close_channel's UPDATE
CloseChannelMatches(cid, party_paymail) ==
    /\ cid \in DOMAIN payment_channels
    /\ (payment_channels[cid].party_a_paymail = party_paymail
          \/ payment_channels[cid].party_b_paymail = party_paymail)
    /\ payment_channels[cid].status \in {"Open", "Active"}

\* close_channel: one UPDATE ... RETURNING *, then the response
CloseChannel(cid, party_paymail, dbok) ==
    /\ LET settlement_txid == <<"mock-settlement", NewUuid>>
       IN  IF ~dbok
           THEN /\ Return("close", create_error_response("DatabaseError"))
                /\ UNCHANGED payment_channels
           ELSE IF CloseChannelMatches(cid, party_paymail)
           THEN /\ payment_channels' =
                     [payment_channels EXCEPT ![cid].status = "Closed",
                                              ![cid].closed_at = Written,
                                              ![cid].settlement_txid = Some(settlement_txid),
                                              ![cid].updated_at = now]
                /\ Return("close",
                          Response(200, "",
                                   [channel_id |-> cid, status |-> "Closed",
                                    final_balance_a |-> payment_channels[cid].current_balance_a,
                                    final_balance_b |-> payment_channels[cid].current_balance_b,
                                    settlement_txid |-> settlement_txid]))
           ELSE /\ Return("close", create_error_response("ClosureError"))
                /\ UNCHANGED payment_channels
    /\ UNCHANGED <<channel_payments, channel_states, now>>

\* ------------------------------------------------------ force_close_channel
\* mutant: == for != in the first comparison, an outsider passes the test
ForceCloseUnauthorized_OnlyB(channel, party_paymail) ==
    /\ channel.party_a_paymail = party_paymail
    /\ channel.party_b_paymail # party_paymail

\* "Verify party is authorized": the request's party is neither party
ForceCloseUnauthorized(channel, party_paymail) ==
    /\ channel.party_a_paymail # party_paymail
    /\ channel.party_b_paymail # party_paymail

\* "Check if channel can be force closed"
ForceCloseRefused(channel) == channel.status = "Closed"

\* force_close_channel: SELECT the channel, check the party and the status
ForceCloseChannel(cid, party_paymail, dbok) ==
    /\ LET arg == [channel_id |-> cid, party_paymail |-> party_paymail] IN
       IF ~dbok
       THEN Return("force_close", create_error_response("DatabaseError"))
       ELSE IF cid \notin DOMAIN payment_channels
       THEN Return("force_close", Response(404, "NotFound", <<>>))
       ELSE LET channel == payment_channels[cid] IN
            IF ForceCloseUnauthorized(channel, party_paymail)
            THEN Return("force_close", Response(403, "Unauthorized", <<>>))
            ELSE IF ForceCloseRefused(channel)
            THEN Return("force_close", create_error_response("ChannelClosed"))
            ELSE Await("force_close", "force_update", arg, [status |-> channel.status])
    /\ UNCHANGED <<payment_channels, channel_payments, channel_states, now>>

\* force_close_channel: UPDATE ... SET status = 'Disputed' WHERE channel_id = $1
ForceCloseUpdate(h, dbok) ==
    /\ h \in Suspended("force_update")
    /\ IF dbok
       THEN /\ payment_channels' =
                 [payment_channels EXCEPT ![h.arg.channel_id].status = "Disputed",
                                          ![h.arg.channel_id].updated_at = now]
            /\ Finish(h, Response(200, "", [status |-> "Disputed"]))
       ELSE /\ Finish(h, create_error_response("DatabaseError"))
            /\ UNCHANGED payment_channels
    /\ UNCHANGED <<channel_payments, channel_states, now>>

\* ----------------------------------------------------------- check_timeouts
\* the rows of SELECT ... WHERE status = 'Disputed' AND updated_at < NOW() - 1 hour
ExpiredChannels_Unexpired ==
    { cid \in DOMAIN payment_channels :
        /\ payment_channels[cid].status = "Disputed"
        /\ payment_channels[cid].updated_at > now - DisputeInterval }

ExpiredChannels ==
    { cid \in DOMAIN payment_channels :
        /\ payment_channels[cid].status = "Disputed"
        /\ payment_channels[cid].updated_at < now - DisputeInterval }

\* check_timeouts: the SELECT of the expired disputes
CheckTimeouts(dbok) ==
    /\ IF ~dbok
       THEN Return("check_timeouts", create_error_response("DatabaseError"))
       ELSE IF ExpiredChannels = {}
       THEN Return("check_timeouts", Response(200, "", {}))
       ELSE Await("check_timeouts", "sweep", <<>>,
                  [channels |-> ExpiredChannels, closed_channels |-> {}])
    /\ UNCHANGED <<payment_channels, channel_payments, channel_states, now>>

\* check_timeouts: one turn of the loop, the UPDATE ... SET status = 'Closed'
\* WHERE channel_id = $2 of one selected channel; the response after the last
CheckTimeoutsClose(h, cid, dbok) ==
    /\ h \in Suspended("sweep")
    /\ cid \in h.loc.channels
    /\ LET settlement_txid == <<"force-settlement", NewUuid>>
           rest == h.loc.channels \ {cid}
           closed_channels ==
               IF dbok
               THEN h.loc.closed_channels \cup
                      {[channel_id |-> cid, settlement_txid |-> settlement_txid]}
               ELSE h.loc.closed_channels
       IN  /\ payment_channels' =
                IF dbok
                THEN [payment_channels EXCEPT ![cid].status = "Closed",
                                              ![cid].closed_at = Written,
                                              ![cid].settlement_txid = Some(settlement_txid)]
                ELSE payment_channels
           /\ IF rest = {}
              THEN Finish(h, Response(200, "", closed_channels))
              ELSE Goto(h, "sweep", [channels |-> rest, closed_channels |-> closed_channels])
    /\ UNCHANGED <<channel_payments, channel_states, now>>

\* ======================================================= blockchain-monitor
\* src/core/blockchain-monitor/src/main.rs: the poll loop, the handlers that
\* write, and the indexer (WhatsOnChain) as the environment.  A step is the
\* code between two awaits on storage, on the indexer or on a lock.

\* get_pending_transactions polls rows with confirmations below this
PendingBelow == 6

Txids == {"tx1", "tx2"}
Addresses == {"addr1", "addr2"}
\* the transactions that clients hand to broadcast_transaction
BroadcastTxids == {"tx2"}
Confirmations == {0, 1, PendingBelow}

\* the unspent outputs that the indexer lists for an address
AddressUtxos(address) == IF address = "addr1" THEN <<"tx1", "tx2">> ELSE <<"tx2">>

\* status as update_transaction_confirmations and get_transaction derive it
StatusOf(confirmations) == IF confirmations > 0 THEN "confirmed" ELSE "pending"

Transaction(txid, confirmations) ==
    [txid |-> txid, confirmations |-> confirmations, status |-> StatusOf(confirmations)]

\* save_transaction: INSERT ... ON CONFLICT (txid) DO UPDATE; first_seen is
\* NOW() of the INSERT, here the rank of the row's arrival
save_transaction(table, tx) ==
    IF tx.txid \in DOMAIN table
    THEN [table EXCEPT ![tx.txid].confirmations = tx.confirmations,
                       ![tx.txid].status = tx.status]
    ELSE [t \in DOMAIN table \cup {tx.txid} |->
            IF t = tx.txid
            THEN [confirmations |-> tx.confirmations, status |-> tx.status,
                  first_seen |-> Cardinality(DOMAIN table) + 1]
            ELSE table[t]]

\* AppState::get_transaction: the row of txid as a Transaction, if there is one
get_transaction(table, txid) ==
    IF txid \in DOMAIN table
    THEN Some(Transaction(txid, table[txid].confirmations))
    ELSE None

\* ORDER BY first_seen DESC: the row at place i has i - 1 rows after it in
\* the order of arrival
ByFirstSeenDesc(table, rows) ==
    [i \in 1..Cardinality(rows) |->
        CHOOSE t \in rows :
            Cardinality({u \in rows : table[u].first_seen > table[t].first_seen}) = i - 1]

\* get_pending_transactions returns at most this many rows
PendingLimit == 100

\* get_pending_transactions: WHERE status = 'pending' OR confirmations < 6
\* ORDER BY first_seen DESC LIMIT 100
get_pending_transactions(table) ==
    LET rows == ByFirstSeenDesc(table, { t \in DOMAIN table :
                                           \/ table[t].status = "pending"
                                           \/ table[t].confirmations < PendingBelow })
    IN  IF Len(rows) > PendingLimit THEN SubSeq(rows, 1, PendingLimit) ELSE rows

\* the orders in which a HashSet can be iterated
Orders(set) ==
    { s \in UNION { [1..n -> set] : n \in {Cardinality(set)} } :
        \A i, j \in DOMAIN s : i # j => s[i] # s[j] }

\* ---------------------------------------------------------- monitor plumbing
EmptyLoc ==
    [pending |-> <<>>, addresses |-> <<>>, address |-> "", utxos |-> <<>>,
     caller |-> "", txid |-> "", old_tx |-> None, new_confs |-> 0]

MonitorTask == [op |-> "monitor", pc |-> "poll", arg |-> <<>>, loc |-> EmptyLoc]

\* the rows of watched_addresses that the start of the service finds
StoredAddresses == {"addr1"}

\* AppState::new, with load_watched_addresses: the in-memory set is loaded
\* from the table
MonitorInit ==
    /\ blockchain_transactions = <<>>
    /\ confirmation_events = {}
    /\ watched_addresses_table = StoredAddresses
    /\ watched_addresses = watched_addresses_table
    /\ tx_cache = <<>>
    /\ woc_confirmations = [t \in Txids |-> 0]
    /\ chain_events = 0
    /\ monitor_tasks = SetToBag({MonitorTask})
    /\ monitor_served = 0
    /\ monitor_response = NoResponse

MonitorArrive ==
    /\ monitor_served < MaxMonitorReqs
    /\ monitor_served' = monitor_served + 1

MonitorReturn(op, resp) ==
    /\ MonitorArrive
    /\ monitor_tasks' = monitor_tasks
    /\ monitor_response' = [op |-> op, resp |-> resp]

MonitorAwait(op, pc, arg, loc) ==
    /\ MonitorArrive
    /\ monitor_tasks' = monitor_tasks (+)
                          SetToBag({[op |-> op, pc |-> pc, arg |-> arg, loc |-> loc]})
    /\ monitor_response' = NoResponse

MonitorFinish(h, resp) ==
    /\ monitor_tasks' = monitor_tasks (-) SetToBag({h})
    /\ monitor_response' = [op |-> h.op, resp |-> resp]
    /\ UNCHANGED monitor_served

MonitorGoto(h, next) ==
    /\ monitor_tasks' = (monitor_tasks (-) SetToBag({h})) (+) SetToBag({next})
    /\ monitor_response' = NoResponse
    /\ UNCHANGED monitor_served

At(pc) == {h \in BagToSet(monitor_tasks) : h.pc = pc}

Tables == <<blockchain_transactions, confirmation_events, watched_addresses_table>>
Memory == <<watched_addresses, tx_cache>>
Indexer == <<woc_confirmations, chain_events>>

\* ----------------------------------------------------- start_monitoring_task
\* the loop over the watched addresses goes to the next address, or sleeps
\* and starts the next cycle
NextAddress(h) ==
    IF h.loc.addresses = <<>>
    THEN [h EXCEPT !.pc = "poll", !.loc = EmptyLoc]
    ELSE [h EXCEPT !.pc = "utxos",
                   !.loc = [EmptyLoc EXCEPT !.addresses = Tail(h.loc.addresses),
                                            !.address = Head(h.loc.addresses)]]

\* check_address_for_new_transactions: the loop over the address's UTXOs
NextUtxo(h) ==
    IF h.loc.utxos = <<>>
    THEN NextAddress(h)
    ELSE [h EXCEPT !.pc = "seen",
                   !.loc = [EmptyLoc EXCEPT !.addresses = h.loc.addresses,
                                            !.address = h.loc.address,
                                            !.utxos = Tail(h.loc.utxos),
                                            !.txid = Head(h.loc.utxos)]]

\* the loop over the pending txids goes to the next txid, or to the addresses
NextPending(h) ==
    IF h.loc.pending = <<>>
    THEN [h EXCEPT !.pc = "addresses", !.loc = EmptyLoc]
    ELSE [h EXCEPT !.pc = "utc_get",
                   !.loc = [EmptyLoc EXCEPT !.pending = Tail(h.loc.pending),
                                            !.caller = "pending",
                                            !.txid = Head(h.loc.pending)]]

\* update_transaction_confirmations returns (Ok or Err) to its caller: the
\* loops log an error and go on, broadcast_transaction drops it and responds
UtcReturn(h) ==
    IF h.op = "broadcast"
    THEN MonitorFinish(h, Response(200, "", [txid |-> h.loc.txid]))
    ELSE MonitorGoto(h, IF h.loc.caller = "pending" THEN NextPending(h) ELSE NextUtxo(h))

\* the cycle starts: get_pending_transactions
GetPendingTransactions(h, dbok) ==
    /\ h \in At("poll")
    /\ MonitorGoto(h, IF dbok
                      THEN NextPending([h EXCEPT !.loc.pending =
                              get_pending_transactions(blockchain_transactions)])
                      ELSE [h EXCEPT !.pc = "addresses"])
    /\ UNCHANGED <<Tables, Memory, Indexer>>

\* the snapshot of the in-memory watched set
ReadWatchedAddresses(h) ==
    /\ h \in At("addresses")
    /\ \E order \in Orders(watched_addresses) :
          MonitorGoto(h, NextAddress([h EXCEPT !.loc.addresses = order]))
    /\ UNCHANGED <<Tables, Memory, Indexer>>

\* check_address_for_new_transactions: woc_get_address_utxos
GetAddressUtxos(h, wocok) ==
    /\ h \in At("utxos")
    /\ MonitorGoto(h, IF wocok
                      THEN NextUtxo([h EXCEPT !.loc.utxos = AddressUtxos(h.loc.address)])
                      ELSE NextAddress(h))
    /\ UNCHANGED <<Tables, Memory, Indexer>>

\* check_address_for_new_transactions: has this transaction been seen?
CheckSeen(h, dbok) ==
    /\ h \in At("seen")
    /\ MonitorGoto(h,
          IF ~dbok THEN NextAddress(h)
          ELSE IF get_transaction(blockchain_transactions, h.loc.txid) # None
               THEN NextUtxo(h)
               ELSE [h EXCEPT !.pc = "utc_get", !.loc.caller = "address"])
    /\ UNCHANGED <<Tables, Memory, Indexer>>

\* ------------------------------------------ update_transaction_confirmations
\* the current state from the database
UtcGetTransaction(h, dbok) ==
    /\ h \in At("utc_get")
    /\ IF dbok
       THEN MonitorGoto(h, [h EXCEPT !.pc = "utc_woc",
                   !.loc.old_tx = get_transaction(blockchain_transactions, h.loc.txid)])
       ELSE UtcReturn(h)
    /\ UNCHANGED <<Tables, Memory, Indexer>>

\* old_tx.map(|t| t.confirmations).unwrap_or(0)
old_confs(h) == IF h.loc.old_tx = None THEN 0 ELSE h.loc.old_tx[1].confirmations

\* the query to the indexer of update_transaction_confirmations, with a
\* failure taken for a transaction without confirmations
UtcWocGetTransaction_Default(h, wocok) ==
    /\ h \in At("utc_woc")
    /\ IF (IF wocok THEN woc_confirmations[h.loc.txid] ELSE 0) # old_confs(h)
       THEN MonitorGoto(h, [h EXCEPT !.pc = "utc_save",
                                     !.loc.new_confs =
                                        IF wocok THEN woc_confirmations[h.loc.txid] ELSE 0])
       ELSE UtcReturn(h)
    /\ UNCHANGED <<Tables, Memory, Indexer>>

\* the query to the indexer and the comparison
UtcWocGetTransaction(h, wocok) ==
    /\ h \in At("utc_woc")
    /\ IF wocok /\ woc_confirmations[h.loc.txid] # old_confs(h)
       THEN MonitorGoto(h, [h EXCEPT !.pc = "utc_save",
                                     !.loc.new_confs = woc_confirmations[h.loc.txid]])
       ELSE UtcReturn(h)
    /\ UNCHANGED <<Tables, Memory, Indexer>>

UtcSaveTransaction(h, dbok) ==
    /\ h \in At("utc_save")
    /\ IF dbok
       THEN /\ blockchain_transactions' =
                 save_transaction(blockchain_transactions,
                                  Transaction(h.loc.txid, h.loc.new_confs))
            /\ MonitorGoto(h, [h EXCEPT !.pc = "utc_event"])
       ELSE /\ UNCHANGED blockchain_transactions
            /\ UtcReturn(h)
    /\ UNCHANGED <<confirmation_events, watched_addresses_table, Memory, Indexer>>

ConfirmationUpdate(txid, old, new) ==
    [txid |-> txid, old_confirmations |-> old, new_confirmations |-> new]

\* save_confirmation_event
UtcSaveConfirmationEvent(h, dbok) ==
    /\ h \in At("utc_event")
    /\ confirmation_events' =
          IF dbok
          THEN confirmation_events \cup
                 {ConfirmationUpdate(h.loc.txid, old_confs(h), h.loc.new_confs)}
          ELSE confirmation_events
    /\ UtcReturn(h)
    /\ UNCHANGED <<blockchain_transactions, watched_addresses_table, Memory, Indexer>>

\* ------------------------------------------------------------- HTTP handlers
DatabaseError == Response(500, "database_error", <<>>)
ApiError == Response(502, "api_error", <<>>)

\* watch_address -> add_watched_address: the INSERT ... ON CONFLICT DO NOTHING
WatchAddress(address, dbok) ==
    /\ IF dbok
       THEN /\ watched_addresses_table' = watched_addresses_table \cup {address}
            /\ MonitorAwait("watch_address", "watch_insert", address, EmptyLoc)
       ELSE /\ UNCHANGED watched_addresses_table
            /\ MonitorReturn("watch_address", DatabaseError)
    /\ UNCHANGED <<blockchain_transactions, confirmation_events, Memory, Indexer>>

\* add_watched_address: the write lock and the insert into the in-memory set
WatchAddressInsert(h) ==
    /\ h \in At("watch_insert")
    /\ watched_addresses' = watched_addresses \cup {h.arg}
    /\ MonitorFinish(h, Response(200, "", [address |-> h.arg]))
    /\ UNCHANGED <<Tables, tx_cache, Indexer>>

\* get_transaction (handler): the cache first
GetTransaction(txid) ==
    /\ IF txid \in DOMAIN tx_cache
       THEN MonitorReturn("get_transaction", Response(200, "", tx_cache[txid]))
       ELSE MonitorAwait("get_transaction", "gt_db", txid, EmptyLoc)
    /\ UNCHANGED <<Tables, Memory, Indexer>>

\* get_transaction (handler): the database
GetTransactionDb(h, dbok) ==
    /\ h \in At("gt_db")
    /\ IF ~dbok THEN MonitorFinish(h, DatabaseError)
       ELSE IF get_transaction(blockchain_transactions, h.arg) # None
            THEN MonitorGoto(h, [h EXCEPT !.pc = "gt_cache",
                       !.loc.old_tx = get_transaction(blockchain_transactions, h.arg)])
            ELSE MonitorGoto(h, [h EXCEPT !.pc = "gt_woc"])
    /\ UNCHANGED <<Tables, Memory, Indexer>>

\* get_transaction (handler): the write lock, cache.insert, the response
GetTransactionCache(h) ==
    /\ h \in At("gt_cache")
    /\ tx_cache' = [t \in DOMAIN tx_cache \cup {h.arg} |->
                      IF t = h.arg THEN h.loc.old_tx[1] ELSE tx_cache[t]]
    /\ MonitorFinish(h, Response(200, "", h.loc.old_tx[1]))
    /\ UNCHANGED <<Tables, watched_addresses, Indexer>>

\* get_transaction (handler): not in the database, ask the indexer
GetTransactionWoc(h, wocok) ==
    /\ h \in At("gt_woc")
    /\ IF wocok
       THEN MonitorGoto(h, [h EXCEPT !.pc = "gt_save",
                                     !.loc.new_confs = woc_confirmations[h.arg]])
       ELSE MonitorFinish(h, ApiError)
    /\ UNCHANGED <<Tables, Memory, Indexer>>

\* get_transaction (handler): let _ = save_transaction, then the response
GetTransactionSave(h, dbok) ==
    /\ h \in At("gt_save")
    /\ blockchain_transactions' =
          IF dbok
          THEN save_transaction(blockchain_transactions,
                                Transaction(h.arg, h.loc.new_confs))
          ELSE blockchain_transactions
    /\ MonitorFinish(h, Response(200, "", Transaction(h.arg, h.loc.new_confs)))
    /\ UNCHANGED <<confirmation_events, watched_addresses_table, Memory, Indexer>>

\* broadcast_transaction: the indexer takes the transaction and names it,
\* then update_transaction_confirmations starts to monitor it
BroadcastTransaction(txid, wocok) ==
    /\ IF wocok
       THEN MonitorAwait("broadcast", "utc_get", txid,
                         [EmptyLoc EXCEPT !.caller = "broadcast", !.txid = txid])
       ELSE MonitorReturn("broadcast", ApiError)
    /\ UNCHANGED <<Tables, Memory, Indexer>>

\* the chain moves: a block confirms the transaction, or a reorg removes it
IndexerUpdate(txid, confirmations) ==
    /\ chain_events < MaxChainEvents
    /\ confirmations # woc_confirmations[txid]
    /\ chain_events' = chain_events + 1
    /\ woc_confirmations' = [woc_confirmations EXCEPT ![txid] = confirmations]
    /\ monitor_response' = NoResponse
    /\ UNCHANGED <<Tables, Memory, monitor_tasks, monitor_served>>

\* ============================================================== spv-service
\* src/core/spv-service/src/main.rs: the pure verification functions.  Bytes
\* are sequences; a hex string is its bytes and its form, so that decoding
\* (either letter case) and encoding (lower case) are not inverse.

HexString(bytes, form) == [bytes |-> bytes, form |-> form]

\* hex::decode: Ok(bytes) for an upper or lower case string, Err otherwise
hex_decode(s) == IF s.form = "invalid" THEN None ELSE Some(s.bytes)

\* hex::encode: lower case
hex_encode(bytes) == HexString(bytes, "lower")

\* double_sha256 as a collision-free hash: the digest is a pair of halves
\* that name the data, so distinct data have distinct digests and a digest
\* differs from its byte reversal
double_sha256(data) == <<[digest |-> data, half |-> 1], [digest |-> data, half |-> 2]>>

RECURSIVE Reverse(_)
Reverse(bytes) ==
    IF bytes = <<>> THEN <<>> ELSE Reverse(Tail(bytes)) \o <<Head(bytes)>>

\* verify_merkle_proof: the loop over the siblings
RECURSIVE MerkleFold(_, _, _)
MerkleFold(hash, siblings, current_index) ==
    IF siblings = <<>> THEN Some(hash)
    ELSE LET sibling_bytes == hex_decode(Head(siblings))
         IN  IF sibling_bytes = None THEN None
             ELSE LET combined == IF current_index % 2 = 0
                                  THEN hash \o sibling_bytes[1]
                                  ELSE sibling_bytes[1] \o hash
                  IN  MerkleFold(double_sha256(combined), Tail(siblings),
                                 current_index \div 2)

verify_merkle_proof(tx_hash, siblings, index, merkle_root) ==
    IF hex_decode(tx_hash) = None THEN FALSE
    ELSE LET hash == MerkleFold(hex_decode(tx_hash)[1], siblings, index)
         IN  /\ hash # None
             /\ hex_encode(hash[1]) = merkle_root

\* to_le_bytes of a value cast to 32 bits, as one word; the values of the
\* model fit in 31 bits, where the cast changes nothing
le32(x) == <<[word |-> x]>>

verify_block_header_hash(header) ==
    IF hex_decode(header.prev_block) = None THEN FALSE
    ELSE IF hex_decode(header.merkle_root) = None THEN FALSE
    ELSE LET serialized == le32(header.version)
                            \o hex_decode(header.prev_block)[1]
                            \o hex_decode(header.merkle_root)[1]
                            \o le32(header.timestamp)
                            \o le32(header.bits)
                            \o le32(header.nonce)
         IN  hex_encode(double_sha256(serialized)) = header.hash

\* validate_header_chain: TRUE for Ok(()), FALSE for a VerificationError
validate_header_chain(headers) ==
    \A i \in 2..Len(headers) :
        LET prev_header == headers[i - 1]
            curr_header == headers[i]
        IN  /\ curr_header.height = prev_header.height + 1
            /\ curr_header.prev_block = prev_header.hash
            /\ verify_block_header_hash(curr_header)
            /\ curr_header.timestamp > prev_header.timestamp

\* ----------------------------------------------------- inputs of the verifier
MaxLeaves == 3
MaxHeaders == 3

\* transaction ids, as bytes
Leaves == {<<1>>, <<2>>}
LeafSets == UNION { [1..n -> Leaves] : n \in 1..MaxLeaves }

\* Bitcoin's tree: the nodes of a level are hashed in pairs, the last node
\* of an odd level with itself
RECURSIVE NextLevel(_)
NextLevel(level) ==
    IF level = <<>> THEN <<>>
    ELSE IF Len(level) = 1 THEN <<double_sha256(level[1] \o level[1])>>
    ELSE <<double_sha256(level[1] \o level[2])>> \o NextLevel(SubSeq(level, 3, Len(level)))

RECURSIVE MerkleRoot(_)
MerkleRoot(level) == IF Len(level) = 1 THEN level[1] ELSE MerkleRoot(NextLevel(level))

\* the siblings of the node at index (from 0) on the way to the root
RECURSIVE SiblingPath(_, _)
SiblingPath(level, index) ==
    IF Len(level) = 1 THEN <<>>
    ELSE LET other == IF index % 2 = 0 THEN index + 1 ELSE index - 1
             sibling == IF other + 1 > Len(level) THEN level[index + 1] ELSE level[other + 1]
         IN  <<sibling>> \o SiblingPath(NextLevel(level), index \div 2)

\* a value written as hex in either letter case, or another value, or no hex
Forms == {"lower", "upper"}
InHex(bytes) == { HexString(bytes, form) : form \in Forms }
Altered(bytes) == { HexString(bytes \o <<0>>, "lower"), HexString(bytes, "invalid") }

\* the sequences that pick one element of choices[i] at each place i
RECURSIVE Picks(_)
Picks(choices) ==
    IF choices = <<>> THEN {<<>>}
    ELSE { <<x>> \o rest : x \in Head(choices), rest \in Picks(Tail(choices)) }

MerkleRequestsOf(leaves, index) ==
    { [kind |-> "merkle", leaves |-> leaves, index |-> index,
       tx_hash |-> hex_encode(leaves[index + 1]),
       siblings |-> siblings, merkle_root |-> merkle_root] :
         siblings \in Picks([i \in 1..Len(SiblingPath(leaves, index)) |->
                                InHex(SiblingPath(leaves, index)[i])
                                  \cup Altered(SiblingPath(leaves, index)[i])]),
         merkle_root \in InHex(MerkleRoot(leaves)) \cup Altered(MerkleRoot(leaves)) }

MerkleRequests ==
    UNION { MerkleRequestsOf(p[1], p[2]) :
              p \in { q \in LeafSets \X (0..(MaxLeaves - 1)) : q[2] < Len(q[1]) } }

\* header hashes are written as the digest (the code's comparison) or as the
\* reversed digest (the displayed block hash)
ByteOrders == {"digest", "reversed"}

Serialized(header) ==
    le32(header.version) \o header.prev_block.bytes \o header.merkle_root.bytes
      \o le32(header.timestamp) \o le32(header.bits) \o le32(header.nonce)

MakeHeader(n, prev_block, order, form) ==
    LET fields == [height |-> 100 + n, version |-> 1, prev_block |-> prev_block,
                   merkle_root |-> HexString(<<9>>, form), timestamp |-> 1000 + n,
                   bits |-> 1, nonce |-> n]
        digest == double_sha256(Serialized(fields))
    IN  [height |-> fields.height,
         hash |-> HexString(IF order = "reversed" THEN Reverse(digest) ELSE digest, form),
         version |-> fields.version, prev_block |-> fields.prev_block,
         merkle_root |-> fields.merkle_root, timestamp |-> fields.timestamp,
         bits |-> fields.bits, nonce |-> fields.nonce]

\* a chain of n headers, each linked to the one before
RECURSIVE Chain(_, _, _)
Chain(n, order, form) ==
    IF n = 0 THEN <<>>
    ELSE LET before == Chain(n - 1, order, form)
             prev_block == IF n = 1 THEN HexString(<<0>>, form) ELSE before[n - 1].hash
         IN  Append(before, MakeHeader(n, prev_block, order, form))

Changes(n) ==
    {[kind |-> "none", i |-> 0, j |-> 0]}
      \cup {[kind |-> "swap", i |-> i, j |-> j] : i \in 1..n, j \in 1..n}
      \cup {[kind |-> "prev_block", i |-> i, j |-> 0] : i \in 1..n}
      \cup {[kind |-> "timestamp", i |-> i, j |-> 0] : i \in 2..n}

Change(headers, change) ==
    IF change.kind = "swap"
    THEN [headers EXCEPT ![change.i] = headers[change.j], ![change.j] = headers[change.i]]
    ELSE IF change.kind = "prev_block"
    THEN [headers EXCEPT ![change.i].prev_block =
             HexString(headers[change.i].prev_block.bytes \o <<0>>, "lower")]
    ELSE IF change.kind = "timestamp"
    THEN [headers EXCEPT ![change.i].timestamp = headers[change.i - 1].timestamp]
    ELSE headers

ChainRequests ==
    UNION { { [kind |-> "chain", change |-> change,
               headers |-> Change(Chain(n, order, form), change)] :
                 change \in { c \in Changes(n) : c.kind = "swap" => c.i < c.j } } :
            n \in 1..MaxHeaders, order \in ByteOrders, form \in Forms }

NoRequest == [kind |-> "none"]

VerifierIdle ==
    /\ spv_request = NoRequest
    /\ spv_result = None

VerifyMerkleProof ==
    /\ spv_request.kind = "merkle"
    /\ spv_result = None
    /\ spv_result' = Some(verify_merkle_proof(spv_request.tx_hash, spv_request.siblings,
                                              spv_request.index, spv_request.merkle_root))
    /\ UNCHANGED spv_request

ValidateHeaderChain ==
    /\ spv_request.kind = "chain"
    /\ spv_result = None
    /\ spv_result' = Some(validate_header_chain(spv_request.headers))
    /\ UNCHANGED spv_request

\* --------------------------------------------------------- validate_chain
\* WocBlockHeader: the indexer's answer for one height.  bits is a text, in
\* decimal digits or not
WocBlockHeader(header, bits_form) ==
    [height |-> header.height, hash |-> header.hash, version |-> header.version,
     previous_block_hash |-> Some(header.prev_block), merkleroot |-> header.merkle_root,
     time |-> header.timestamp, bits |-> [number |-> header.bits, form |-> bits_form],
     nonce |-> header.nonce]

\* str::parse::<u32>: Ok for decimal digits
parse_u32(text) == IF text.form = "decimal" THEN Some(text.number) ELSE None

\* BlockHeader { .. } built from a WocBlockHeader
BlockHeaderOf(woc_header) ==
    [height |-> woc_header.height, hash |-> woc_header.hash, version |-> woc_header.version,
     prev_block |-> IF woc_header.previous_block_hash = None THEN HexString(<<>>, "lower")
                    ELSE woc_header.previous_block_hash[1],
     merkle_root |-> woc_header.merkleroot, timestamp |-> woc_header.time,
     bits |-> IF parse_u32(woc_header.bits) = None THEN 0 ELSE parse_u32(woc_header.bits)[1],
     nonce |-> woc_header.nonce]

\* validate_chain: answers[i] is what woc_get_block_header returns for the
\* height from + i - 1, Some(WocBlockHeader) or None for an Err
validate_chain(from, to, answers) ==
    LET fetched == SelectSeq([i \in 1..(to - from + 1) |-> i], LAMBDA i : answers[i] # None)
        failed == SelectSeq([i \in 1..(to - from + 1) |-> i], LAMBDA i : answers[i] = None)
        headers == [k \in 1..Len(fetched) |-> BlockHeaderOf(answers[fetched[k]][1])]
        fetch_errors == [k \in 1..Len(failed) |-> <<"Failed to fetch block", from + failed[k] - 1>>]
        valid == validate_header_chain(headers)
    IN  [from_height |-> from, to_height |-> to, valid |-> valid,
         blocks_validated |-> Len(headers),
         errors |-> IF valid THEN fetch_errors
                    ELSE Append(fetch_errors, <<"VerificationError", 0>>)]

\* the requests: the indexer holds a chain of n headers, linked or with one
\* prev_block altered, and fails for the heights of a set
ValidateChainRequests ==
    UNION { { [kind |-> "validate_chain", from |-> 101, to |-> 100 + n,
               answers |-> [i \in 1..n |->
                              IF i \in fails THEN None
                              ELSE Some(WocBlockHeader(
                                     Change(Chain(n, "digest", "lower"), change)[i], bits_form))]] :
                 change \in { c \in Changes(n) : c.kind \in {"none", "prev_block"} },
                 bits_form \in {"decimal", "hex"},
                 fails \in SUBSET (1..n) } :
            n \in 1..MaxHeaders }

ValidateChain ==
    /\ spv_request.kind = "validate_chain"
    /\ spv_result = None
    /\ spv_result' = Some(validate_chain(spv_request.from, spv_request.to, spv_request.answers))
    /\ UNCHANGED spv_request

\* ------------------------------------------------- the handlers of spv-service
\* The handlers that read or write the tables merkle_proofs and block_headers,
\* and the indexer (WhatsOnChain) they ask.  The indexer's chain is a sequence
\* of branch marks, one for each height from 1 to its tip: a reorganisation
\* from some height changes the marks from there on, and with them the hashes.
\* A handler is one step; the steps of the indexer come between handlers.
MaxSpvReqs == 2
MaxTip == 3
MaxReorgs == 1

\* Config::from_env: MIN_CONFIRMATIONS, when the variable is not set
min_confirmations == 1

\* the block that holds the transactions, and its height on the indexer
BlockLeaves == <<<<1>>, <<2>>>>
BlockHeight == 1

\* request txids: 64 hex characters in either letter case, or something else
SpvTxids == { HexString(leaf, form) : leaf \in Leaves, form \in Forms \cup {"invalid"} }

\* common::validate_txid
validate_txid(txid) == txid.form # "invalid"

LeafIndex(leaf) == CHOOSE i \in 0..(Len(BlockLeaves) - 1) : BlockLeaves[i + 1] = leaf

\* woc_get_merkle_proof: what the indexer may answer for txid, a WocMerkleProof
\* with the block's branch or with an altered one; None is an ApiError
WocMerkleProofs(txid) ==
    {None} \cup { Some([merkle_root |-> r.merkle_root, siblings |-> r.siblings,
                        index |-> r.index]) :
                    r \in MerkleRequestsOf(BlockLeaves, LeafIndex(txid.bytes)) }

\* woc_get_chain_tip: the height of the indexer's chain
woc_get_chain_tip(chain) == Len(chain)

\* woc_get_block_header and the BlockHeader built from it; the fields that
\* the handlers only copy are left out
WocHash(chain, height) == <<height, chain[height]>>

woc_get_block_header(chain, height) ==
    IF height \in 1..Len(chain)
    THEN Some([height |-> height, hash |-> WocHash(chain, height),
               prev_block |-> IF height = 1 THEN <<>> ELSE WocHash(chain, height - 1)])
    ELSE None

\* save_merkle_proof: INSERT ... ON CONFLICT (txid) DO UPDATE, verified = true
save_merkle_proof(table, proof) ==
    [t \in DOMAIN table \cup {proof.txid} |->
        IF t = proof.txid
        THEN [txid |-> proof.txid, block_hash |-> proof.block_hash,
              block_height |-> proof.block_height, merkle_root |-> proof.merkle_root,
              siblings |-> proof.siblings, tx_index |-> proof.tx_index,
              verified |-> TRUE]
        ELSE table[t]]

\* get_merkle_proof: SELECT ... WHERE txid = $1 AND verified = true
get_merkle_proof(table, txid) ==
    IF txid \in DOMAIN table /\ table[txid].verified
    THEN Some([txid |-> table[txid].txid, block_hash |-> table[txid].block_hash,
               block_height |-> table[txid].block_height,
               merkle_root |-> table[txid].merkle_root,
               siblings |-> table[txid].siblings, tx_index |-> table[txid].tx_index])
    ELSE None

\* save_block_header: INSERT ... ON CONFLICT (height) DO UPDATE
save_block_header(table, header) ==
    [h \in DOMAIN table \cup {header.height} |->
        IF h = header.height THEN header ELSE table[h]]

\* get_block_header: SELECT ... WHERE height = $1
get_block_header(table, height) ==
    IF height \in DOMAIN table THEN Some(table[height]) ELSE None

\* MerkleProof { txid, block_hash: String::new(), block_height: None, .. }
MerkleProof(txid, woc_proof) ==
    [txid |-> txid, block_hash |-> "", block_height |-> None,
     merkle_root |-> woc_proof.merkle_root, siblings |-> woc_proof.siblings,
     tx_index |-> woc_proof.index]

SpvResponse(op, arg, code, body) == [op |-> op, arg |-> arg, code |-> code, body |-> body]
NoSpvResponse == [op |-> "none"]

SpvInit ==
    /\ merkle_proofs = <<>>
    /\ block_headers = <<>>
    /\ woc_chain = <<0>>
    /\ woc_reorgs = 0
    /\ spv_served = 0
    /\ spv_response = NoSpvResponse

\* a request is taken and answered
SpvServe(op, arg, code, body) ==
    /\ spv_served < MaxSpvReqs
    /\ spv_served' = spv_served + 1
    /\ spv_response' = SpvResponse(op, arg, code, body)
    /\ UNCHANGED <<woc_chain, woc_reorgs>>

VerifyTransaction(txid, woc, dbok) ==
    IF ~validate_txid(txid)
    THEN /\ SpvServe("verify_transaction", txid, 400, "validation_error")
         /\ UNCHANGED <<merkle_proofs, block_headers>>
    ELSE IF woc = None
    THEN /\ SpvServe("verify_transaction", txid, 502, "api_error")
         /\ UNCHANGED <<merkle_proofs, block_headers>>
    ELSE LET woc_proof == woc[1]
             merkle_verified == verify_merkle_proof(txid, woc_proof.siblings,
                                                    woc_proof.index, woc_proof.merkle_root)
             confirmations == 0
         IN  /\ merkle_proofs' = IF merkle_verified /\ dbok
                                 THEN save_merkle_proof(merkle_proofs,
                                                        MerkleProof(txid, woc_proof))
                                 ELSE merkle_proofs
             /\ SpvServe("verify_transaction", txid, 200,
                         [txid |-> txid, verified |-> merkle_verified,
                          confirmations |-> confirmations, block_hash |-> None,
                          block_height |-> None, merkle_verified |-> merkle_verified,
                          sufficient_confirmations |-> confirmations >= min_confirmations])
             /\ UNCHANGED block_headers

GetMerkleProofHandler(txid, readok, woc, dbok) ==
    IF ~validate_txid(txid)
    THEN /\ SpvServe("get_merkle_proof_handler", txid, 400, "validation_error")
         /\ UNCHANGED <<merkle_proofs, block_headers>>
    ELSE IF ~readok
    THEN /\ SpvServe("get_merkle_proof_handler", txid, 500, "database_error")
         /\ UNCHANGED <<merkle_proofs, block_headers>>
    ELSE IF get_merkle_proof(merkle_proofs, txid) # None
    THEN /\ SpvServe("get_merkle_proof_handler", txid, 200,
                     get_merkle_proof(merkle_proofs, txid)[1])
         /\ UNCHANGED <<merkle_proofs, block_headers>>
    ELSE IF woc = None
    THEN /\ SpvServe("get_merkle_proof_handler", txid, 502, "api_error")
         /\ UNCHANGED <<merkle_proofs, block_headers>>
    ELSE LET proof == MerkleProof(txid, woc[1])
         IN  /\ merkle_proofs' = IF dbok THEN save_merkle_proof(merkle_proofs, proof)
                                 ELSE merkle_proofs
             /\ SpvServe("get_merkle_proof_handler", txid, 200, proof)
             /\ UNCHANGED block_headers

GetBlockHeaderHandler(height, readok, wocok, dbok) ==
    IF ~readok
    THEN /\ SpvServe("get_block_header_handler", height, 500, "database_error")
         /\ UNCHANGED <<merkle_proofs, block_headers>>
    ELSE IF get_block_header(block_headers, height) # None
    THEN /\ SpvServe("get_block_header_handler", height, 200,
                     get_block_header(block_headers, height)[1])
         /\ UNCHANGED <<merkle_proofs, block_headers>>
    ELSE IF ~wocok \/ woc_get_block_header(woc_chain, height) = None
    THEN /\ SpvServe("get_block_header_handler", height, 502, "api_error")
         /\ UNCHANGED <<merkle_proofs, block_headers>>
    ELSE LET header == woc_get_block_header(woc_chain, height)[1]
         IN  /\ block_headers' = IF dbok THEN save_block_header(block_headers, header)
                                 ELSE block_headers
             /\ SpvServe("get_block_header_handler", height, 200, header)
             /\ UNCHANGED merkle_proofs

\* the lookback of the query is not read
CheckReorgs(wocok) ==
    /\ IF ~wocok
       THEN SpvServe("check_reorgs", <<>>, 502, "api_error")
       ELSE LET chain_tip == woc_get_chain_tip(woc_chain)
            IN  SpvServe("check_reorgs", <<>>, 200,
                         [detected |-> FALSE, reorg_depth |-> None,
                          old_chain_tip |-> None, new_chain_tip |-> chain_tip,
                          affected_blocks |-> <<>>])
    /\ UNCHANGED <<merkle_proofs, block_headers>>

\* the indexer: a block is mined on its chain
WocBlock ==
    /\ Len(woc_chain) < MaxTip
    /\ woc_chain' = Append(woc_chain, woc_reorgs)
    /\ spv_response' = NoSpvResponse
    /\ UNCHANGED <<merkle_proofs, block_headers, woc_reorgs, spv_served>>

\* the indexer: the blocks from height on are replaced by those of another
\* branch, as long or longer by one
WocReorg(height, longer) ==
    /\ woc_reorgs < MaxReorgs
    /\ height \in (BlockHeight + 1)..Len(woc_chain)
    /\ longer => Len(woc_chain) < MaxTip
    /\ woc_reorgs' = woc_reorgs + 1
    /\ woc_chain' = [h \in 1..(Len(woc_chain) + IF longer THEN 1 ELSE 0) |->
                        IF h < height THEN woc_chain[h] ELSE woc_reorgs + 1]
    /\ spv_response' = NoSpvResponse
    /\ UNCHANGED <<merkle_proofs, block_headers, spv_served>>

\* ====================================================== transaction-builder
\* src/core/transaction-builder/src/main.rs.  The service keeps no state: a
\* request is answered from its own fields.  Satoshi amounts and sizes are
\* the code's numbers; every amount of the model is far below 2^63, where
\* validate_amount's upper limit and the u64 additions change nothing.  A
\* u32 is held modulo 2^32 as its representative from -2^31 to 2^31 - 1, so
\* that 0xffffffff is -1 and its bytes are taken exactly.

Ok(value) == [ok |-> TRUE, value |-> value]
Err(error) == [ok |-> FALSE, error |-> error]

Zeros(n) == [i \in 1..n |-> 0]

\* u32::to_le_bytes and u64::to_le_bytes
to_le_bytes_u32(x) ==
    <<x % 256, (x \div 256) % 256, (x \div 65536) % 256, (x \div 16777216) % 256>>
to_le_bytes_u64(x) == to_le_bytes_u32(x) \o Zeros(4)

\* usize as u8
as_u8(n) == n % 256

\* Transaction::new, add_input, add_output
Transaction_new == [version |-> 1, inputs |-> <<>>, outputs |-> <<>>, locktime |-> 0]

add_input(tx, txid, vout, value) ==
    [tx EXCEPT !.inputs = Append(@, [txid |-> txid, vout |-> vout, script_sig |-> <<>>,
                                     sequence |-> -1, value |-> value])]

add_output(tx, value, script_pubkey) ==
    [tx EXCEPT !.outputs = Append(@, [value |-> value, script_pubkey |-> script_pubkey])]

\* Transaction::serialize
serialize_input(input) ==
    LET txid_bytes == IF hex_decode(input.txid) = None THEN Zeros(32)
                      ELSE hex_decode(input.txid)[1]
    IN  Reverse(txid_bytes) \o to_le_bytes_u32(input.vout)
          \o <<as_u8(Len(input.script_sig))>> \o input.script_sig
          \o to_le_bytes_u32(input.sequence)

serialize_output(output) ==
    to_le_bytes_u64(output.value) \o <<as_u8(Len(output.script_pubkey))>>
      \o output.script_pubkey

RECURSIVE Concat(_)
Concat(seqs) == IF seqs = <<>> THEN <<>> ELSE Head(seqs) \o Concat(Tail(seqs))

serialize(tx) ==
    to_le_bytes_u32(tx.version)
      \o <<as_u8(Len(tx.inputs))>>
      \o Concat([i \in 1..Len(tx.inputs) |-> serialize_input(tx.inputs[i])])
      \o <<as_u8(Len(tx.outputs))>>
      \o Concat([i \in 1..Len(tx.outputs) |-> serialize_output(tx.outputs[i])])
      \o to_le_bytes_u32(tx.locktime)

calculate_size(tx) == Len(serialize(tx))

Transaction_estimate_fee(tx, fee_per_byte) == calculate_size(tx) * fee_per_byte

\* ScriptBuilder
p2pkh(pubkey_hash) == <<118, 169, 20>> \o pubkey_hash \o <<136, 172>>
p2sh(script_hash) == <<169, 20>> \o script_hash \o <<135>>
checklocktimeverify(locktime, pubkey_hash) ==
    <<4>> \o to_le_bytes_u32(locktime) \o <<177, 117, 118, 169, 20>> \o pubkey_hash
      \o <<136, 172>>

\* an address is its base58 text: the text decodes to at least 25 bytes whose
\* bytes 1 to 20 are hash, or it does not (hash is <<>>)
Address(hash) == [hash |-> hash]
decode_address(address) ==
    IF address.hash = <<>> THEN None ELSE Some(address.hash)

\* common::validate_amount, for amounts below MAX_SATOSHIS
validate_amount(satoshis) == satoshis > 0

saturating_sub(a, b) == IF a > b THEN a - b ELSE 0

RECURSIVE SumOf(_, _)
SumOf(seq, field) == IF seq = <<>> THEN 0 ELSE Head(seq)[field] + SumOf(Tail(seq), field)

\* for utxo in utxos { selected.push(utxo); total += utxo.satoshis;
\*                     if total >= target { break; } }
RECURSIVE Accumulate(_, _, _)
Accumulate(utxos, target, total) ==
    IF utxos = <<>> THEN <<>>
    ELSE IF total + Head(utxos).satoshis >= target THEN <<Head(utxos)>>
    ELSE <<Head(utxos)>> \o Accumulate(Tail(utxos), target, total + Head(utxos).satoshis)

RECURSIVE AddInputs(_, _)
AddInputs(tx, utxos) ==
    IF utxos = <<>> THEN tx
    ELSE AddInputs(add_input(tx, Head(utxos).txid, Head(utxos).vout, Head(utxos).satoshis),
                   Tail(utxos))

\* "abcdef0123456789abcdef0123456789abcdef0123456789abcdef0123456789"
PlaceholderTxid ==
    HexString(Concat([i \in 1..4 |-> <<171, 205, 239, 1, 35, 69, 103, 137>>]), "lower")

DUST_THRESHOLD == 546
default_fee_per_byte == 50

\* validate_p2pkh_request: Ok, or the ValidationError
validate_p2pkh_request(req) ==
    /\ validate_amount(req.amount_satoshis)
    /\ decode_address(req.from_address) # None
    /\ decode_address(req.to_address) # None
    /\ req.fee_per_byte # None => ~(req.fee_per_byte[1] = 0 \/ req.fee_per_byte[1] > 10000)

validate_funding_request(req) ==
    /\ validate_amount(req.party_a.amount)
    /\ validate_amount(req.party_b.amount)
    /\ decode_address(req.party_a.address) # None
    /\ decode_address(req.party_b.address) # None
    /\ decode_address(req.multisig_address) # None

validate_commitment_request(req) ==
    /\ validate_amount(req.party_a_balance)
    /\ validate_amount(req.party_b_balance)
    /\ validate_amount(req.funding_amount)
    /\ decode_address(req.party_a_address) # None
    /\ decode_address(req.party_b_address) # None
    /\ req.funding_txid.form # "invalid"

build_p2pkh_transaction(req, fee_per_byte) ==
    IF decode_address(req.to_address) = None THEN Err("Invalid to_address")
    ELSE IF decode_address(req.from_address) = None THEN Err("Invalid from_address")
    ELSE IF req.utxos = Some(<<>>) THEN Err("No UTXOs provided")
    ELSE
    LET to_hash == decode_address(req.to_address)[1]
        from_hash == decode_address(req.from_address)[1]
        utxos == IF req.utxos # None THEN req.utxos[1]
                 ELSE <<[txid |-> PlaceholderTxid, vout |-> 0,
                         satoshis |-> req.amount_satoshis + 100000]>>
        estimated_size == 10 + 1 + (1 * 148) + 1 + (2 * 34)
        estimated_fee == estimated_size * fee_per_byte
        total_needed == req.amount_satoshis + estimated_fee
        selected_utxos == Accumulate(utxos, total_needed, 0)
        total_input == SumOf(selected_utxos, "satoshis")
        actual_size_with_change == 10 + 1 + (Len(selected_utxos) * 148) + 1 + (2 * 34)
        fee_with_change == actual_size_with_change * fee_per_byte
        paid == add_output(AddInputs(Transaction_new, selected_utxos),
                           req.amount_satoshis, p2pkh(to_hash))
        change_with_change_output ==
            saturating_sub(total_input, req.amount_satoshis + fee_with_change)
    IN  IF total_input < total_needed THEN Err("Insufficient funds")
        ELSE IF change_with_change_output > DUST_THRESHOLD
        THEN Ok(add_output(paid, change_with_change_output, p2pkh(from_hash)))
        ELSE Ok(paid)

build_funding_transaction(req, fee_per_byte) ==
    IF req.party_a.utxos = None THEN Err("Party A UTXOs required")
    ELSE IF req.party_b.utxos = None THEN Err("Party B UTXOs required")
    ELSE
    LET utxos_a == req.party_a.utxos[1]
        utxos_b == req.party_b.utxos[1]
        estimated_size == 10 + 1 + ((Len(utxos_a) + Len(utxos_b)) * 148) + 1 + (1 * 34)
        estimated_fee == estimated_size * fee_per_byte
        total_funding == req.party_a.amount + req.party_b.amount
    IN  IF utxos_a = <<>> \/ utxos_b = <<>> THEN Err("Both parties must provide UTXOs")
        ELSE IF decode_address(req.multisig_address) = None THEN Err("Invalid address")
        ELSE IF total_funding <= estimated_fee
        THEN Err("Funding amount too small to cover fees")
        ELSE Ok(add_output(AddInputs(AddInputs(Transaction_new, utxos_a), utxos_b),
                           total_funding - estimated_fee,
                           p2sh(decode_address(req.multisig_address)[1])))

build_commitment_transaction(req, fee_per_byte) ==
    LET funded == add_input(Transaction_new, req.funding_txid, req.funding_output,
                            req.funding_amount)
        tx == [funded EXCEPT !.inputs[1].sequence = req.sequence_number]
    IN  IF req.party_a_balance + req.party_b_balance > req.funding_amount
        THEN Err("Combined balances exceed funding amount")
        ELSE IF decode_address(req.party_a_address) = None THEN Err("Invalid address")
        ELSE IF decode_address(req.party_b_address) = None THEN Err("Invalid address")
        ELSE Ok(add_output(
                  add_output(tx, req.party_a_balance,
                             checklocktimeverify(req.timelock_blocks,
                                                 decode_address(req.party_a_address)[1])),
                  req.party_b_balance, p2pkh(decode_address(req.party_b_address)[1])))

build_settlement_transaction(req, fee_per_byte) ==
    LET tx == add_input(Transaction_new, req.funding_txid, req.funding_output,
                        req.funding_amount)
        estimated_size == 10 + 1 + (1 * 148) + 1 + (2 * 34)
        estimated_fee == estimated_size * fee_per_byte
    IN  IF req.party_a_balance + req.party_b_balance > req.funding_amount
        THEN Err("Combined balances exceed funding amount")
        ELSE IF decode_address(req.party_a_address) = None THEN Err("Invalid address")
        ELSE IF decode_address(req.party_b_address) = None THEN Err("Invalid address")
        ELSE IF req.party_a_balance + req.party_b_balance + estimated_fee
                  > req.funding_amount
        THEN Err("Insufficient funding for balances + fees")
        ELSE IF req.party_b_balance < estimated_fee
        THEN Err("Party B balance too small to cover fees")
        ELSE Ok(add_output(
                  add_output(tx, req.party_a_balance,
                             p2pkh(decode_address(req.party_a_address)[1])),
                  req.party_b_balance - estimated_fee,
                  p2pkh(decode_address(req.party_b_address)[1])))

\* sort_by_key, a stable sort: by satoshis, ascending or (Reverse) descending
RECURSIVE InsertByKey(_, _, _)
InsertByKey(sorted, utxo, descending) ==
    IF sorted = <<>> THEN <<utxo>>
    ELSE IF (IF descending THEN Head(sorted).satoshis >= utxo.satoshis
             ELSE Head(sorted).satoshis <= utxo.satoshis)
    THEN <<Head(sorted)>> \o InsertByKey(Tail(sorted), utxo, descending)
    ELSE <<utxo>> \o sorted

RECURSIVE sort_by_key(_, _)
sort_by_key(utxos, descending) ==
    IF utxos = <<>> THEN <<>>
    ELSE InsertByKey(sort_by_key(SubSeq(utxos, 1, Len(utxos) - 1), descending),
                     utxos[Len(utxos)], descending)

select_utxos(utxos, target, strategy) ==
    LET sorted_utxos == IF strategy = "smallest" THEN sort_by_key(utxos, FALSE)
                        ELSE sort_by_key(utxos, TRUE)
    IN  Accumulate(sorted_utxos, target, 0)

\* the size that estimate_fee gives to a request
estimated_size_bytes(req) ==
    IF req.tx_type = "p2pkh"
    THEN 10 + 1 + (148 * (IF req.input_count = None THEN 1 ELSE req.input_count[1])) + 1
           + (34 * (IF req.output_count = None THEN 2 ELSE req.output_count[1]))
    ELSE IF req.tx_type = "multisig"
    THEN 10 + 1 + (295 * (IF req.input_count = None THEN 1 ELSE req.input_count[1])) + 1
           + (34 * (IF req.output_count = None THEN 1 ELSE req.output_count[1]))
    ELSE IF req.tx_type = "funding" THEN 500
    ELSE IF req.tx_type = "commitment" THEN 350
    ELSE IF req.tx_type = "settlement" THEN 300
    ELSE 250

unwrap_or(option, default) == IF option = None THEN default ELSE option[1]

\* ------------------------------------------------------------- the handlers
TxResponse(code, body) == [code |-> code, body |-> body]
NoTxResponse == [code |-> 0]

\* BuildTransactionResponse, without the hex text and the txid
BuildTransactionResponse(tx, fee_per_byte) ==
    [size_bytes |-> calculate_size(tx),
     fee_satoshis |-> Transaction_estimate_fee(tx, fee_per_byte),
     inputs |-> tx.inputs, outputs |-> tx.outputs]

Built(result, fee_per_byte) ==
    IF result.ok THEN TxResponse(200, BuildTransactionResponse(result.value, fee_per_byte))
    ELSE TxResponse(400, "build_error")

Answer(kind, response) ==
    /\ tx_request.kind = kind
    /\ tx_response = NoTxResponse
    /\ tx_response' = response
    /\ UNCHANGED tx_request

BuildP2pkh ==
    Answer("build_p2pkh",
           LET req == tx_request.req
               fee_per_byte == unwrap_or(req.fee_per_byte, default_fee_per_byte)
           IN  IF ~validate_p2pkh_request(req) THEN TxResponse(400, "validation_error")
               ELSE Built(build_p2pkh_transaction(req, fee_per_byte), fee_per_byte))

BuildFunding ==
    Answer("build_funding",
           LET req == tx_request.req
               fee_per_byte == unwrap_or(req.fee_per_byte, default_fee_per_byte)
           IN  IF ~validate_funding_request(req) THEN TxResponse(400, "validation_error")
               ELSE Built(build_funding_transaction(req, fee_per_byte), fee_per_byte))

BuildCommitment ==
    Answer("build_commitment",
           LET req == tx_request.req
               fee_per_byte == unwrap_or(req.fee_per_byte, default_fee_per_byte)
           IN  IF ~validate_commitment_request(req) THEN TxResponse(400, "validation_error")
               ELSE Built(build_commitment_transaction(req, fee_per_byte), fee_per_byte))

\* build_settlement validates nothing
BuildSettlement ==
    Answer("build_settlement",
           LET req == tx_request.req
               fee_per_byte == unwrap_or(req.fee_per_byte, default_fee_per_byte)
           IN  Built(build_settlement_transaction(req, fee_per_byte), fee_per_byte))

EstimateFee ==
    Answer("estimate_fee",
           LET req == tx_request.req
               fee_per_byte == unwrap_or(req.fee_per_byte, default_fee_per_byte)
               estimated_size == estimated_size_bytes(req)
           IN  TxResponse(200, [tx_type |-> req.tx_type,
                                estimated_size_bytes |-> estimated_size,
                                fee_per_byte |-> fee_per_byte,
                                fee_satoshis |-> estimated_size * fee_per_byte]))

\* Transaction::serialize, applied to two transactions
Serialize ==
    Answer("serialize",
           TxResponse(200, [first |-> serialize(tx_request.req.first),
                            second |-> serialize(tx_request.req.second)]))

SelectUtxosHandler ==
    Answer("select_utxos",
           LET req == tx_request.req
               selected == select_utxos(req.utxos, req.target_amount,
                                        unwrap_or(req.strategy, "largest"))
               total_value == SumOf(selected, "satoshis")
           IN  IF ~validate_amount(req.target_amount) THEN TxResponse(400, "validation_error")
               ELSE TxResponse(200, [selected_utxos |-> selected,
                                     total_value |-> total_value,
                                     change_amount |->
                                         saturating_sub(total_value, req.target_amount)]))

\* --------------------------------------------------- inputs of the builder
MaxUtxos == 3

AddressA == Address(Zeros(19) \o <<1>>)
AddressB == Address(Zeros(19) \o <<2>>)
NoAddress == Address(<<>>)

Txid(n) == HexString(Zeros(31) \o <<n>>, "lower")
NoTxid == HexString(<<>>, "invalid")

UtxoValues == {600, 12000, 30000}
UtxoLists(longest) ==
    UNION { { [i \in 1..n |-> [txid |-> Txid(i), vout |-> 0, satoshis |-> values[i]]] :
                values \in [1..n -> UtxoValues] } : n \in 0..longest }

FeeRates == {None, Some(0), Some(1)}

BuildP2pkhRequests ==
    { [kind |-> "build_p2pkh",
       req |-> [from_address |-> AddressA, to_address |-> to,
                amount_satoshis |-> amount, fee_per_byte |-> fee, utxos |-> utxos]] :
        to \in {AddressB, NoAddress}, amount \in {0, 500, 1000, 15000}, fee \in FeeRates,
        utxos \in {None} \cup { Some(list) : list \in UtxoLists(MaxUtxos - 1) } }

PartyInputs(address) ==
    { [address |-> address, amount |-> amount, utxos |-> utxos] :
        amount \in {0, 200, 10000},
        utxos \in {None} \cup { Some(list) : list \in UtxoLists(1) } }

BuildFundingRequests ==
    { [kind |-> "build_funding",
       req |-> [party_a |-> a, party_b |-> b, multisig_address |-> multisig,
                fee_per_byte |-> fee]] :
        a \in PartyInputs(AddressA), b \in PartyInputs(AddressB),
        multisig \in {AddressA, NoAddress}, fee \in {None, Some(1)} }

Balances == {0, 500, 12000}

BuildCommitmentRequests ==
    { [kind |-> "build_commitment",
       req |-> [funding_txid |-> txid, funding_output |-> 0, funding_amount |-> funding,
                party_a_balance |-> a, party_b_balance |-> b,
                party_a_address |-> AddressA, party_b_address |-> AddressB,
                sequence_number |-> 1, timelock_blocks |-> 144, fee_per_byte |-> None]] :
        txid \in {Txid(1), NoTxid}, funding \in {1000, 24000, 40000},
        a \in Balances, b \in Balances }

BuildSettlementRequests ==
    { [kind |-> "build_settlement",
       req |-> [funding_txid |-> Txid(1), funding_output |-> 0, funding_amount |-> funding,
                party_a_balance |-> a, party_b_balance |-> b,
                party_a_address |-> AddressA, party_b_address |-> address,
                fee_per_byte |-> fee]] :
        funding \in {1000, 24000, 40000}, a \in Balances, b \in Balances,
        address \in {AddressB, NoAddress}, fee \in {None, Some(1)} }

TxTypes == {"p2pkh", "multisig", "funding", "commitment", "settlement", "other"}

EstimateFeeRequests ==
    { [kind |-> "estimate_fee",
       req |-> [tx_type |-> tx_type, input_count |-> inputs, output_count |-> outputs,
                fee_per_byte |-> fee]] :
        tx_type \in TxTypes, inputs \in {None, Some(1), Some(2)},
        outputs \in {None, Some(1), Some(2)}, fee \in FeeRates \cup {Some(2)} }

Strategies == {None, Some("largest"), Some("smallest"), Some("exact_match")}

SelectUtxosRequests ==
    { [kind |-> "select_utxos",
       req |-> [utxos |-> utxos, target_amount |-> target, strategy |-> strategy]] :
        utxos \in UtxoLists(MaxUtxos), target \in {0, 500, 13000, 100000},
        strategy \in Strategies }

\* transactions of one input and at most one output, with scripts of 0, 25,
\* 247 and 256 bytes.  The 256 bytes are those that follow the script_sig
\* length in the serialization of the transaction Short.
TxOf(script_sig, sequence, outputs) ==
    [version |-> 1,
     inputs |-> <<[txid |-> Txid(1), vout |-> 0, script_sig |-> script_sig,
                   sequence |-> sequence, value |-> 30000]>>,
     outputs |-> outputs, locktime |-> 0]

Short == TxOf(<<>>, 0, <<[value |-> 1000, script_pubkey |-> Zeros(247)]>>)
ScriptOffset == 4 + 1 + 32 + 4 + 1
LongScript == SubSeq(serialize(Short), ScriptOffset + 1, ScriptOffset + 256)

Transactions ==
    { TxOf(script_sig, sequence, outputs) :
        script_sig \in {<<>>, LongScript}, sequence \in {0, -1},
        outputs \in {<<>>, <<[value |-> 1000, script_pubkey |-> p2pkh(AddressB.hash)]>>,
                     <<[value |-> 1000, script_pubkey |-> Zeros(247)]>>} }

SerializeRequests ==
    { [kind |-> "serialize", req |-> [first |-> first, second |-> second]] :
        first \in Transactions, second \in Transactions }

TxRequests ==
    BuildP2pkhRequests \cup BuildFundingRequests \cup BuildCommitmentRequests
      \cup BuildSettlementRequests \cup EstimateFeeRequests \cup SelectUtxosRequests
      \cup SerializeRequests

NoTxRequest == [kind |-> "none"]

TxIdle ==
    /\ tx_request = NoTxRequest
    /\ tx_response = NoTxResponse

\* ========================================================== common: rate_limit
\* src/core/common/src/rate_limit.rs.  A string is the sequence of its
\* characters, so that the key of an entry is the text that format! makes.
\* The clock is SystemTime::now() in seconds; it is past the epoch by more
\* than any window, so that now - window_seconds does not wrap, and it does
\* not step back.
MaxChecks == 4
MaxClock == 2
Epoch == 100

RateLimit(requests_per_window, window_seconds) ==
    [requests_per_window |-> requests_per_window, window_seconds |-> window_seconds]

\* the limiter after add_limit for two endpoints, "a" and "a:b"
EndpointA == <<"a">>
EndpointAB == <<"a", ":", "b">>
limits == (EndpointA :> RateLimit(1, 1)) @@ (EndpointAB :> RateLimit(2, 1))

\* the endpoints and keys of the requests: the third endpoint has no limit
Endpoints == {EndpointA, EndpointAB, <<"x">>}
Keys == {<<"c">>, <<"b", ":", "c">>}

\* format!("{}:{}", endpoint, key)
rate_key(endpoint, key) == endpoint \o <<":">> \o key

\* RateLimitEntry::cleanup_old_requests with the comparison ts > window_start
cleanup_old_requests_After(timestamps, window_start) ==
    SelectSeq(timestamps, LAMBDA ts : ts > window_start)

\* RateLimitEntry::cleanup_old_requests: retain(|&ts| ts >= window_start)
cleanup_old_requests(timestamps, window_start) ==
    SelectSeq(timestamps, LAMBDA ts : ts >= window_start)

\* the Result of a call: "Ok" with its RateLimitInfo, or the RateLimitError
LimiterResult(endpoint, key, at, result, info) ==
    [endpoint |-> endpoint, key |-> key, now |-> at, result |-> result, info |-> info]
NoLimiterResult == [result |-> "none"]

LimiterInit ==
    /\ entries = <<>>
    /\ unix_now = Epoch
    /\ limiter_checks = 0
    /\ limiter_result = NoLimiterResult
    /\ admitted = [e \in DOMAIN limits, k \in Keys |-> <<>>]

\* RateLimiter::check_rate_limit
CheckRateLimit(endpoint, key) ==
    /\ limiter_checks < MaxChecks
    /\ limiter_checks' = limiter_checks + 1
    /\ UNCHANGED unix_now
    /\ IF endpoint \notin DOMAIN limits
       THEN /\ limiter_result' = LimiterResult(endpoint, key, unix_now, "InternalError", None)
            /\ UNCHANGED <<entries, admitted>>
       ELSE LET limit == limits[endpoint]
                window_start == unix_now - limit.window_seconds
                key_of_entry == rate_key(endpoint, key)
                entry == IF key_of_entry \in DOMAIN entries THEN entries[key_of_entry]
                         ELSE <<>>
                cleaned == cleanup_old_requests(entry, window_start)
                current_count == Len(cleaned)
                put(timestamps) ==
                    [r \in DOMAIN entries \cup {key_of_entry} |->
                        IF r = key_of_entry THEN timestamps ELSE entries[r]]
            IN  IF current_count >= limit.requests_per_window
                THEN /\ entries' = put(cleaned)
                     /\ limiter_result' =
                            LimiterResult(endpoint, key, unix_now, "LimitExceeded", None)
                     /\ UNCHANGED admitted
                ELSE /\ entries' = put(Append(cleaned, unix_now))
                     /\ limiter_result' =
                            LimiterResult(endpoint, key, unix_now, "Ok",
                                Some([limit |-> limit.requests_per_window,
                                      remaining |-> limit.requests_per_window
                                                      - (current_count + 1),
                                      reset |-> unix_now + limit.window_seconds]))
                     /\ admitted' = [admitted EXCEPT ![endpoint, key] = Append(@, unix_now)]

\* RateLimiter::cleanup_old_entries, run by the task of start_cleanup_task
CleanupOldEntries ==
    /\ entries' = [r \in {q \in DOMAIN entries : entries[q] # <<>>} |-> entries[r]]
    /\ limiter_result' = NoLimiterResult
    /\ UNCHANGED <<unix_now, limiter_checks, admitted>>

\* a second passes
ClockTick ==
    /\ unix_now < Epoch + MaxClock
    /\ unix_now' = unix_now + 1
    /\ limiter_result' = NoLimiterResult
    /\ UNCHANGED <<entries, limiter_checks, admitted>>

\* ----------------------------------------------------------- specifications
\* the services after construction, no request to the verifier
Init ==
    /\ ChannelInit
    /\ MonitorInit
    /\ VerifierIdle
    /\ SpvInit
    /\ TxIdle
    /\ LimiterInit

Next ==
    \/ Tick
          /\ UNCHANGED except_channel
    \/ \E req \in OpenChannelRequests, dbok \in BOOLEAN : OpenChannel(req, dbok)
          /\ UNCHANGED except_channel
    \/ \E h \in BagToSet(in_flight), dbok \in BOOLEAN : OpenChannelState(h, dbok)
          /\ UNCHANGED except_channel
    \/ \E cid \in ChannelIds, req \in SendPaymentRequests, dbok \in BOOLEAN :
          SendPayment(cid, req, dbok)
          /\ UNCHANGED except_channel
    \/ \E h \in BagToSet(in_flight), dbok \in BOOLEAN : SendPaymentTime(h, dbok)
          /\ UNCHANGED except_channel
    \/ \E cid \in ChannelIds, p \in Paymails, dbok \in BOOLEAN : CloseChannel(cid, p, dbok)
          /\ UNCHANGED except_channel
    \/ \E cid \in ChannelIds, p \in Paymails, dbok \in BOOLEAN : ForceCloseChannel(cid, p, dbok)
          /\ UNCHANGED except_channel
    \/ \E h \in BagToSet(in_flight), dbok \in BOOLEAN : ForceCloseUpdate(h, dbok)
          /\ UNCHANGED except_channel
    \/ \E dbok \in BOOLEAN : CheckTimeouts(dbok)
          /\ UNCHANGED except_channel
    \/ \E h \in BagToSet(in_flight), cid \in ChannelIds, dbok \in BOOLEAN :
          CheckTimeoutsClose(h, cid, dbok)
          /\ UNCHANGED except_channel

Spec == Init /\ [][Next]_vars

MonitorNext ==
    \/ \E h \in BagToSet(monitor_tasks), dbok \in BOOLEAN : GetPendingTransactions(h, dbok)
          /\ UNCHANGED except_monitor
    \/ \E h \in BagToSet(monitor_tasks) : ReadWatchedAddresses(h)
          /\ UNCHANGED except_monitor
    \/ \E h \in BagToSet(monitor_tasks), wocok \in BOOLEAN : GetAddressUtxos(h, wocok)
          /\ UNCHANGED except_monitor
    \/ \E h \in BagToSet(monitor_tasks), dbok \in BOOLEAN : CheckSeen(h, dbok)
          /\ UNCHANGED except_monitor
    \/ \E h \in BagToSet(monitor_tasks), dbok \in BOOLEAN : UtcGetTransaction(h, dbok)
          /\ UNCHANGED except_monitor
    \/ \E h \in BagToSet(monitor_tasks), wocok \in BOOLEAN : UtcWocGetTransaction(h, wocok)
          /\ UNCHANGED except_monitor
    \/ \E h \in BagToSet(monitor_tasks), dbok \in BOOLEAN : UtcSaveTransaction(h, dbok)
          /\ UNCHANGED except_monitor
    \/ \E h \in BagToSet(monitor_tasks), dbok \in BOOLEAN : UtcSaveConfirmationEvent(h, dbok)
          /\ UNCHANGED except_monitor
    \/ \E address \in Addresses, dbok \in BOOLEAN : WatchAddress(address, dbok)
          /\ UNCHANGED except_monitor
    \/ \E h \in BagToSet(monitor_tasks) : WatchAddressInsert(h)
          /\ UNCHANGED except_monitor
    \/ \E txid \in Txids : GetTransaction(txid)
          /\ UNCHANGED except_monitor
    \/ \E h \in BagToSet(monitor_tasks), dbok \in BOOLEAN : GetTransactionDb(h, dbok)
          /\ UNCHANGED except_monitor
    \/ \E h \in BagToSet(monitor_tasks) : GetTransactionCache(h)
          /\ UNCHANGED except_monitor
    \/ \E h \in BagToSet(monitor_tasks), wocok \in BOOLEAN : GetTransactionWoc(h, wocok)
          /\ UNCHANGED except_monitor
    \/ \E h \in BagToSet(monitor_tasks), dbok \in BOOLEAN : GetTransactionSave(h, dbok)
          /\ UNCHANGED except_monitor
    \/ \E txid \in BroadcastTxids, wocok \in BOOLEAN : BroadcastTransaction(txid, wocok)
          /\ UNCHANGED except_monitor
    \/ \E txid \in Txids, confirmations \in Confirmations : IndexerUpdate(txid, confirmations)
          /\ UNCHANGED except_monitor

MonitorSpec == Init /\ [][MonitorNext]_vars

\* the poll loop is a task that the runtime keeps scheduling, and each of
\* its storage and indexer calls returns
MonitorLoop ==
    \E h \in BagToSet(monitor_tasks), ok \in BOOLEAN :
        /\ h.op = "monitor"
        /\ \/ GetPendingTransactions(h, ok)
           \/ ReadWatchedAddresses(h)
           \/ GetAddressUtxos(h, ok)
           \/ CheckSeen(h, ok)
           \/ UtcGetTransaction(h, ok)
           \/ UtcWocGetTransaction(h, ok)
           \/ UtcSaveTransaction(h, ok)
           \/ UtcSaveConfirmationEvent(h, ok)
        /\ UNCHANGED except_monitor

\* a write of a confirmation event that is tried again and again succeeds
MonitorEventWritten ==
    \E h \in BagToSet(monitor_tasks) :
        /\ h.op = "monitor"
        /\ UtcSaveConfirmationEvent(h, TRUE)
        /\ UNCHANGED except_monitor

\* the poll loop and the indexer alone: no HTTP request arrives
MonitorLoopNext ==
    \/ \E h \in BagToSet(monitor_tasks), dbok \in BOOLEAN : GetPendingTransactions(h, dbok)
          /\ UNCHANGED except_monitor
    \/ \E h \in BagToSet(monitor_tasks) : ReadWatchedAddresses(h)
          /\ UNCHANGED except_monitor
    \/ \E h \in BagToSet(monitor_tasks), wocok \in BOOLEAN : GetAddressUtxos(h, wocok)
          /\ UNCHANGED except_monitor
    \/ \E h \in BagToSet(monitor_tasks), dbok \in BOOLEAN : CheckSeen(h, dbok)
          /\ UNCHANGED except_monitor
    \/ \E h \in BagToSet(monitor_tasks), dbok \in BOOLEAN : UtcGetTransaction(h, dbok)
          /\ UNCHANGED except_monitor
    \/ \E h \in BagToSet(monitor_tasks), wocok \in BOOLEAN : UtcWocGetTransaction(h, wocok)
          /\ UNCHANGED except_monitor
    \/ \E h \in BagToSet(monitor_tasks), dbok \in BOOLEAN : UtcSaveTransaction(h, dbok)
          /\ UNCHANGED except_monitor
    \/ \E h \in BagToSet(monitor_tasks), dbok \in BOOLEAN : UtcSaveConfirmationEvent(h, dbok)
          /\ UNCHANGED except_monitor
    \/ \E txid \in Txids, confirmations \in Confirmations : IndexerUpdate(txid, confirmations)
          /\ UNCHANGED except_monitor

MonitorLive ==
    /\ Init
    /\ [][MonitorLoopNext]_vars
    /\ WF_vars(MonitorLoop)
    /\ SF_vars(MonitorEventWritten)

\* the poll loop with a backlog: one tracked transaction more than
\* get_pending_transactions returns, each stored with the one confirmation
\* that the indexer reports for it, in the order of their arrival
Backlog == PendingLimit + 1
TxidOf(i) == "tx" \o ToString(i)
BacklogTxids == {TxidOf(i) : i \in 1..Backlog}

BacklogInit ==
    /\ blockchain_transactions =
          [t \in BacklogTxids |->
              [confirmations |-> 1, status |-> StatusOf(1),
               first_seen |-> CHOOSE i \in 1..Backlog : TxidOf(i) = t]]
    /\ confirmation_events = {ConfirmationUpdate(t, 0, 1) : t \in BacklogTxids}
    /\ watched_addresses_table = StoredAddresses
    /\ watched_addresses = watched_addresses_table
    /\ tx_cache = <<>>
    /\ woc_confirmations = [t \in BacklogTxids |-> 1]
    /\ chain_events = 0
    /\ monitor_tasks = SetToBag({MonitorTask})
    /\ monitor_served = 0
    /\ monitor_response = NoResponse

BacklogStart ==
    ChannelInit /\ BacklogInit /\ VerifierIdle /\ SpvInit /\ TxIdle /\ LimiterInit

\* the poll loop, whose read of the pending set succeeds in every cycle, and
\* the chain moving for the oldest and for the newest transaction of the
\* backlog
BacklogNext ==
    \/ \E h \in BagToSet(monitor_tasks) : GetPendingTransactions(h, TRUE)
          /\ UNCHANGED except_monitor
    \/ \E h \in BagToSet(monitor_tasks) : ReadWatchedAddresses(h)
          /\ UNCHANGED except_monitor
    \/ \E h \in BagToSet(monitor_tasks), wocok \in BOOLEAN : GetAddressUtxos(h, wocok)
          /\ UNCHANGED except_monitor
    \/ \E h \in BagToSet(monitor_tasks), dbok \in BOOLEAN : CheckSeen(h, dbok)
          /\ UNCHANGED except_monitor
    \/ \E h \in BagToSet(monitor_tasks), dbok \in BOOLEAN : UtcGetTransaction(h, dbok)
          /\ UNCHANGED except_monitor
    \/ \E h \in BagToSet(monitor_tasks), wocok \in BOOLEAN : UtcWocGetTransaction(h, wocok)
          /\ UNCHANGED except_monitor
    \/ \E h \in BagToSet(monitor_tasks), dbok \in BOOLEAN : UtcSaveTransaction(h, dbok)
          /\ UNCHANGED except_monitor
    \/ \E h \in BagToSet(monitor_tasks), dbok \in BOOLEAN : UtcSaveConfirmationEvent(h, dbok)
          /\ UNCHANGED except_monitor
    \/ \E txid \in {TxidOf(1), TxidOf(Backlog)}, confirmations \in Confirmations :
          IndexerUpdate(txid, confirmations)
          /\ UNCHANGED except_monitor

\* the poll loop is a task that the runtime keeps scheduling
BacklogLive ==
    /\ BacklogStart
    /\ [][BacklogNext]_vars
    /\ WF_vars(MonitorLoop)

\* the verifier is given one request and answers it
VerifierInit ==
    /\ ChannelInit
    /\ MonitorInit
    /\ spv_request \in MerkleRequests \cup ChainRequests \cup ValidateChainRequests
    /\ spv_result = None
    /\ SpvInit
    /\ TxIdle
    /\ LimiterInit

VerifierNext ==
    \/ VerifyMerkleProof /\ UNCHANGED except_verifier
    \/ ValidateHeaderChain /\ UNCHANGED except_verifier
    \/ ValidateChain /\ UNCHANGED except_verifier

VerifierSpec == VerifierInit /\ [][VerifierNext]_vars

\* spv-service with its tables empty, taking requests while the indexer's
\* chain grows and reorganises
SpvNext ==
    \/ \E txid \in SpvTxids, dbok \in BOOLEAN :
         \E woc \in WocMerkleProofs(txid) : VerifyTransaction(txid, woc, dbok)
          /\ UNCHANGED except_spv
    \/ \E txid \in SpvTxids, readok \in BOOLEAN, dbok \in BOOLEAN :
         \E woc \in WocMerkleProofs(txid) : GetMerkleProofHandler(txid, readok, woc, dbok)
          /\ UNCHANGED except_spv
    \/ \E height \in 1..MaxTip, readok \in BOOLEAN, wocok \in BOOLEAN, dbok \in BOOLEAN :
         GetBlockHeaderHandler(height, readok, wocok, dbok)
          /\ UNCHANGED except_spv
    \/ \E wocok \in BOOLEAN : CheckReorgs(wocok)
          /\ UNCHANGED except_spv
    \/ WocBlock
          /\ UNCHANGED except_spv
    \/ \E height \in 1..MaxTip, longer \in BOOLEAN : WocReorg(height, longer)
          /\ UNCHANGED except_spv

SpvSpec == Init /\ [][SpvNext]_vars

\* transaction-builder is given one request and answers it
BuilderInit ==
    /\ ChannelInit
    /\ MonitorInit
    /\ VerifierIdle
    /\ SpvInit
    /\ tx_request \in TxRequests
    /\ tx_response = NoTxResponse
    /\ LimiterInit

BuilderNext ==
    \/ BuildP2pkh /\ UNCHANGED except_builder
    \/ BuildFunding /\ UNCHANGED except_builder
    \/ BuildCommitment /\ UNCHANGED except_builder
    \/ BuildSettlement /\ UNCHANGED except_builder
    \/ EstimateFee /\ UNCHANGED except_builder
    \/ SelectUtxosHandler /\ UNCHANGED except_builder
    \/ Serialize /\ UNCHANGED except_builder

BuilderSpec == BuilderInit /\ [][BuilderNext]_vars

\* the rate limiter with its two limits, taking checks while the clock runs
LimiterNext ==
    \/ \E endpoint \in Endpoints, key \in Keys : CheckRateLimit(endpoint, key)
          /\ UNCHANGED except_limiter
    \/ CleanupOldEntries
          /\ UNCHANGED except_limiter
    \/ ClockTick
          /\ UNCHANGED except_limiter

LimiterSpec == Init /\ [][LimiterNext]_vars

\* the payment-channel service with channel 1 in dispute: alice and bob
\* opened it and alice force-closed it, both in hour 0; sweeps and further
\* force closes run while the clock advances
DisputedInit ==
    /\ now = 0
    /\ payment_channels =
         (1 :> [NewChannel(CHOOSE req \in OpenChannelRequests :
                              /\ req.party_b_paymail = "bob"
                              /\ req.initial_balance_a >= 0
                              /\ req.timeout_blocks > 0)
                  EXCEPT !.status = "Disputed", !.updated_at = 0])
    /\ channel_states = {[channel_id |-> 1, sequence_number |-> 0, balance_a |-> 2, balance_b |-> 1]}
    /\ channel_payments = {}
    /\ in_flight = EmptyBag
    /\ served = 0
    /\ last_response = NoResponse

SweepInit ==
    /\ DisputedInit
    /\ MonitorInit
    /\ VerifierIdle
    /\ SpvInit
    /\ TxIdle
    /\ LimiterInit

SweepNext ==
    \/ Tick
          /\ UNCHANGED except_channel
    \/ \E cid \in ChannelIds, p \in Paymails, dbok \in BOOLEAN : ForceCloseChannel(cid, p, dbok)
          /\ UNCHANGED except_channel
    \/ \E h \in BagToSet(in_flight), dbok \in BOOLEAN : ForceCloseUpdate(h, dbok)
          /\ UNCHANGED except_channel
    \/ \E dbok \in BOOLEAN : CheckTimeouts(dbok)
          /\ UNCHANGED except_channel
    \/ \E h \in BagToSet(in_flight), cid \in ChannelIds, dbok \in BOOLEAN :
          CheckTimeoutsClose(h, cid, dbok)
          /\ UNCHANGED except_channel

SweepSpec == SweepInit /\ [][SweepNext]_vars

\* =================================================================== claims
\* What a step does: it takes a new request, it suspends handlers, it sends
\* the response of handler op.  Every step that sends no response clears
\* last_response, so last_response' is the response of the step itself.
Arrives == served' = served + 1
Started == {h \in BagToSet(in_flight') : CopiesIn(h, in_flight') > CopiesIn(h, in_flight)}
Rejected(op) == last_response'.op = op /\ last_response'.resp.code # 200
Accepted(op) == last_response'.op = op /\ last_response'.resp.code = 200

Parties(cid) == {payment_channels[cid].party_a_paymail, payment_channels[cid].party_b_paymail}
PaymentsOf(cid) == {p \in channel_payments : p.channel_id = cid}
PaymentIds == {p.id : p \in channel_payments}

\* C1: in every reachable state of every channel current_balance_a +
\* current_balance_b equals initial_balance_a + initial_balance_b.
C1_BalanceConservation ==
    \A cid \in DOMAIN payment_channels :
        payment_channels[cid].current_balance_a + payment_channels[cid].current_balance_b
          = payment_channels[cid].initial_balance_a + payment_channels[cid].initial_balance_b

\* the response of an accepted payment has gone out and the balances of its
\* channel have moved
C1_Witness ==
    /\ last_response.op = "pay"
    /\ last_response.resp.code = 200
    /\ \E cid \in DOMAIN payment_channels :
         /\ payment_channels[cid].sequence_number >= 1
         /\ payment_channels[cid].current_balance_a # payment_channels[cid].initial_balance_a

\* C2: under concurrent pay requests the channel is the result of applying the
\* accepted payments one after the other in the order of their sequence
\* numbers, and the payment log holds exactly one record per accepted payment,
\* with the sequence numbers 1..sequence_number.
PaymentAt(cid, n) == CHOOSE p \in PaymentsOf(cid) : p.sequence_number = n

BalancesBefore(cid, n) ==
    IF n = 1
    THEN [a |-> payment_channels[cid].initial_balance_a,
          b |-> payment_channels[cid].initial_balance_b]
    ELSE [a |-> PaymentAt(cid, n - 1).balance_a_after,
          b |-> PaymentAt(cid, n - 1).balance_b_after]

SerialPayment(cid, p) ==
    LET ch == payment_channels[cid]
        before == BalancesBefore(cid, p.sequence_number)
    IN  /\ p.amount_satoshis > 0
        /\ \/ /\ p.from_paymail = ch.party_a_paymail /\ p.to_paymail = ch.party_b_paymail
              /\ before.a >= p.amount_satoshis
              /\ p.balance_a_after = before.a - p.amount_satoshis
              /\ p.balance_b_after = before.b + p.amount_satoshis
           \/ /\ p.from_paymail = ch.party_b_paymail /\ p.to_paymail = ch.party_a_paymail
              /\ before.b >= p.amount_satoshis
              /\ p.balance_a_after = before.a + p.amount_satoshis
              /\ p.balance_b_after = before.b - p.amount_satoshis

SerialChannel(cid) ==
    LET ch == payment_channels[cid]
        n == ch.sequence_number
    IN  /\ Cardinality(PaymentsOf(cid)) = n
        /\ {p.sequence_number : p \in PaymentsOf(cid)} = 1..n
        /\ \A p \in PaymentsOf(cid) : SerialPayment(cid, p)
        /\ <<ch.current_balance_a, ch.current_balance_b>> =
             IF n = 0 THEN <<ch.initial_balance_a, ch.initial_balance_b>>
             ELSE <<PaymentAt(cid, n).balance_a_after, PaymentAt(cid, n).balance_b_after>>

\* the log gains one record exactly when a pay is accepted (its handler goes
\* on to "pay_time"), and none when a pay is answered
LogStep ==
    /\ \A h \in Started :
         h.pc = "pay_time" =>
            /\ Arrives
            /\ h.loc.payment_data.payment_id \notin PaymentIds
            /\ PaymentIds' = PaymentIds \cup {h.loc.payment_data.payment_id}
    /\ Accepted("pay") =>
            /\ last_response'.resp.body.payment_id \in PaymentIds
            /\ PaymentIds' = PaymentIds
    /\ Rejected("pay") => PaymentIds' = PaymentIds
    /\ PaymentIds' # PaymentIds => \E h \in Started : h.pc = "pay_time"
    /\ Cardinality(channel_payments') = Cardinality(PaymentIds')

C2_ConcurrentPaymentsSerial ==
    /\ [](\A cid \in DOMAIN payment_channels : SerialChannel(cid))
    /\ [][LogStep]_vars

\* two pay requests of 1 from party_a are in flight together, both accepted:
\* (2, 1) has become (0, 3) and the sequence has advanced by 2
C2_Witness ==
    \E h1, h2 \in Suspended("pay_time") :
        /\ h1 # h2
        /\ h1.arg = h2.arg
        /\ LET ch == payment_channels[h1.arg.channel_id] IN
           /\ ch.sequence_number = 2
           /\ ch.current_balance_a = 0 /\ ch.current_balance_b = 3
           /\ Cardinality(PaymentsOf(h1.arg.channel_id)) = 2

\* C3: Closed is absorbing: no step changes the status of a Closed channel.
C3_ClosedAbsorbing ==
    [][\A cid \in DOMAIN payment_channels :
          payment_channels[cid].status = "Closed" => payment_channels'[cid].status = "Closed"]_vars

\* C4: the sequence of a channel starts at 0, an accepted pay sets it to the
\* previous value plus 1, a rejected pay leaves it unchanged, and no other
\* step changes it.
SequenceStep ==
    /\ \A cid \in DOMAIN payment_channels' :
         IF cid \notin DOMAIN payment_channels
         THEN payment_channels'[cid].sequence_number = 0
         ELSE \/ payment_channels'[cid].sequence_number = payment_channels[cid].sequence_number
              \/ /\ payment_channels'[cid].sequence_number
                      = payment_channels[cid].sequence_number + 1
                 /\ \E h \in Started : h.pc = "pay_time" /\ h.arg.channel_id = cid
    /\ \A h \in Started :
         h.pc = "pay_time" =>
            payment_channels'[h.arg.channel_id].sequence_number
              = payment_channels[h.arg.channel_id].sequence_number + 1
    /\ Rejected("pay") =>
         \A cid \in DOMAIN payment_channels :
            payment_channels'[cid].sequence_number = payment_channels[cid].sequence_number

C4_SequenceMonotonic == [][SequenceStep]_vars

\* a channel that an accepted pay has taken to sequence 1, and the pay request
\* that came last was rejected
C4_Witness ==
    /\ last_response.op = "pay"
    /\ last_response.resp.code # 200
    /\ \E cid \in DOMAIN payment_channels :
         /\ payment_channels[cid].sequence_number = 1
         /\ PaymentsOf(cid) # {}

\* C5: a pay between the two parties of an Open or Active channel whose amount
\* exceeds the payer's balance is answered InsufficientBalance and changes
\* neither the channel nor the payment log.  (The storage call succeeds: when
\* it fails the procedure does not run.)
Overdraw(cid, req) ==
    /\ cid \in DOMAIN payment_channels
    /\ payment_channels[cid].status \in {"Open", "Active"}
    /\ req.from_paymail # req.to_paymail
    /\ {req.from_paymail, req.to_paymail} = Parties(cid)
    /\ req.amount_satoshis >
         (IF req.from_paymail = payment_channels[cid].party_a_paymail
          THEN payment_channels[cid].current_balance_a
          ELSE payment_channels[cid].current_balance_b)

\* A step of send_payment takes a request and answers it as "pay" or suspends
\* its handler; the steps of SendPayment(cid, req, TRUE) are those in which
\* the request is req on channel cid and the storage call returns Ok.
OverdrawStep ==
    (Arrives /\ last_response'.op \in {"pay", "none"}) =>
        \A cid \in DOMAIN payment_channels, req \in SendPaymentRequests :
            (Overdraw(cid, req) /\ SendPayment(cid, req, TRUE))
            => /\ Rejected("pay")
               /\ last_response'.resp.error = "InsufficientBalance"
               /\ payment_channels' = payment_channels
               /\ channel_payments' = channel_payments

C5_OverdrawRejected == [][OverdrawStep]_vars

\* a pay was answered InsufficientBalance on a channel that takes payments and
\* on which alice holds less than the 3 of the request
C5_Witness ==
    /\ last_response.op = "pay"
    /\ last_response.resp.error = "InsufficientBalance"
    /\ \E cid \in DOMAIN payment_channels :
         /\ payment_channels[cid].status \in {"Open", "Active"}
         /\ payment_channels[cid].current_balance_a < 3

\* C6: a pay on a channel whose status is not Open or Active is rejected and
\* changes neither the channel nor the payment log.
\* A pay is accepted when its handler goes on to "pay_time", and otherwise it
\* is answered, with an error, in the step in which it arrives.
InactiveStep ==
    /\ \A h \in Started :
         h.pc = "pay_time" =>
            payment_channels[h.arg.channel_id].status \in {"Open", "Active"}
    /\ (Arrives /\ last_response'.op = "pay") => Rejected("pay")
    /\ Rejected("pay") => /\ payment_channels' = payment_channels
                          /\ channel_payments' = channel_payments

C6_PayOnlyWhenOpenOrActive == [][InactiveStep]_vars

\* a pay on a Disputed channel, whose party_a could afford the payment, was
\* answered ChannelInactive
C6_Witness ==
    /\ last_response.op = "pay"
    /\ last_response.resp.error = "ChannelInactive"
    /\ \E cid \in DOMAIN payment_channels :
         /\ payment_channels[cid].status = "Disputed"
         /\ payment_channels[cid].current_balance_a >= 1

\* C7: a send_payment, close_channel or force_close_channel request whose
\* caller is neither party of the channel is rejected, in the step that looks
\* the channel up, and the channel record stays unchanged.
\* A pay or a force close gets past the lookup when its handler is suspended;
\* a close is answered in the step in which it arrives.
CallerOf(h) == IF h.op = "pay" THEN h.arg.request.from_paymail ELSE h.arg.party_paymail

OutsiderStep ==
    /\ \A h \in Started :
         h.op \in {"pay", "force_close"} => CallerOf(h) \in Parties(h.arg.channel_id)
    /\ (Arrives /\ last_response'.op \in {"pay", "force_close"})
          => last_response'.resp.code # 200
    /\ (Arrives /\ Accepted("close")) =>
         \A cid \in DOMAIN payment_channels, dbok \in BOOLEAN :
            \A p \in Paymails \ Parties(cid) : ~CloseChannel(cid, p, dbok)
    /\ (Rejected("pay") \/ Rejected("close") \/ Rejected("force_close"))
          => /\ payment_channels' = payment_channels
             /\ channel_payments' = channel_payments

C7_OnlyParties == [][OutsiderStep]_vars

\* carol's force close of the channel of alice and bob was answered
\* Unauthorized, and the channel is still Open
C7_Witness ==
    /\ last_response.op = "force_close"
    /\ last_response.resp.code = 403
    /\ \E cid \in DOMAIN payment_channels :
         /\ "carol" \notin Parties(cid)
         /\ payment_channels[cid].status = "Open"

\* C8: open creates the channel in status Opening with sequence 0, and the
\* status leaves Opening only once the funding transaction is confirmed.
C8_OpeningUntilFunded ==
    /\ [][\A cid \in DOMAIN payment_channels' :
            cid \notin DOMAIN payment_channels =>
               /\ payment_channels'[cid].status = "Opening"
               /\ payment_channels'[cid].sequence_number = 0]_vars
    /\ [](\A cid \in DOMAIN payment_channels :
            payment_channels[cid].status # "Opening" =>
               payment_channels[cid].funding_confirmations # None)

\* C9: a cooperative close moves the channel to Closing, and a cooperatively
\* closed channel is Closed only once its settlement is confirmed.
C9_ClosingUntilSettled ==
    /\ [][Accepted("close") =>
            payment_channels'[last_response'.resp.body.channel_id].status = "Closing"]_vars
    /\ [](\A cid \in DOMAIN payment_channels :
            (/\ payment_channels[cid].status = "Closed"
             /\ payment_channels[cid].settlement_txid # None
             /\ payment_channels[cid].settlement_txid[1][1] = "mock-settlement")
            => payment_channels[cid].settlement_confirmations # None)

\* C10: force_close succeeds only on an Open or Active channel, which it
\* makes Disputed; on a channel in any other status it is rejected and leaves
\* the channel record unchanged.
ForceCloseStep ==
    /\ \A h \in Started :
         h.pc = "force_update" =>
            payment_channels[h.arg.channel_id].status \in {"Open", "Active"}
    /\ (Arrives /\ last_response'.op = "force_close") => Rejected("force_close")
    /\ Rejected("force_close") => payment_channels' = payment_channels
    /\ \A h \in Suspended("force_update") :
         (Accepted("force_close") /\ CopiesIn(h, in_flight') < CopiesIn(h, in_flight))
         => /\ payment_channels[h.arg.channel_id].status \in {"Open", "Active"}
            /\ payment_channels'[h.arg.channel_id].status = "Disputed"

C10_ForceCloseOnlyOpenOrActive == [][ForceCloseStep]_vars

\* C11: the timeout sweep moves every Disputed channel whose timeout has
\* elapsed to Closing, and changes no channel that is not Disputed or whose
\* timeout has not elapsed.
\* a step of the loop of check_timeouts: a handler suspended at "sweep" moves
SweepTurn == \E h \in Suspended("sweep") : CopiesIn(h, in_flight') < CopiesIn(h, in_flight)

SweepStep ==
    /\ \A h \in Started :
         h.pc = "sweep" => h.loc.channels = ExpiredChannels
    /\ SweepTurn =>
         \A cid \in DOMAIN payment_channels :
            payment_channels'[cid] # payment_channels[cid] =>
               /\ cid \in ExpiredChannels
               /\ payment_channels'[cid].status = "Closing"

C11_SweepToClosing == [][SweepStep]_vars

\* C12: from every reachable channel state whose status is not Closed there
\* is a finite sequence of operations that leads to Closed.  Rank counts the
\* operations that are left: a cooperative close for an Open or Active
\* channel; for a Disputed channel the hours to its deadline, the SELECT of a
\* sweep and the turn of the sweep's loop that closes it.
HoursLeft(cid) ==
    LET deadline == payment_channels[cid].updated_at + DisputeInterval + 1
    IN  IF deadline > now THEN deadline - now ELSE 0

Rank(cid) ==
    IF payment_channels[cid].status = "Closed" THEN 0
    ELSE IF \E h \in Suspended("sweep") : cid \in h.loc.channels THEN 1
    ELSE IF payment_channels[cid].status \in {"Open", "Active"} THEN 1
    ELSE 2 + HoursLeft(cid)

\* the model can follow the operations that are left: another request is
\* taken and the clock runs to the deadline
WithinBounds(cid) ==
    \/ payment_channels[cid].status = "Closed"
    \/ \E h \in Suspended("sweep") : cid \in h.loc.channels
    \/ /\ served < MaxReqs
       /\ payment_channels[cid].status = "Disputed" => now + HoursLeft(cid) <= MaxTime

\* the operations that lead channel cid to Closed
TowardsClosed(cid) ==
    \/ Tick
    \/ CloseChannel(cid, payment_channels[cid].party_a_paymail, TRUE)
    \/ CheckTimeouts(TRUE)
    \/ \E h \in Suspended("sweep") : CheckTimeoutsClose(h, cid, TRUE)

C12_PathToClosed ==
    \A cid \in DOMAIN payment_channels :
        (Rank(cid) > 0 /\ WithinBounds(cid)) =>
            ENABLED (/\ TowardsClosed(cid)
                     /\ Rank(cid)' < Rank(cid)
                     /\ WithinBounds(cid)')

\* a Disputed channel whose deadline is two hours away, with a request left
C12_Witness ==
    \E cid \in DOMAIN payment_channels :
        /\ payment_channels[cid].status = "Disputed"
        /\ Rank(cid) = 4
        /\ WithinBounds(cid)

\* ------------------------------------------------------- blockchain-monitor
\* the poll loop's task after the step
MonitorAfter == {g \in BagToSet(monitor_tasks') : g.op = "monitor"}

\* C13: across poll cycles delivery of ConfirmationUpdate is at-least-once:
\* whenever the monitor has changed a tracked transaction's stored
\* confirmation count from old to new, the confirmation event
\* (txid, old, new) is eventually recorded, even if the event write fails in
\* that cycle.
Owed(txid, old, new) ==
    \E h \in At("utc_event") :
        /\ h.op = "monitor"
        /\ h.loc.old_tx # None
        /\ h.loc.txid = txid
        /\ old_confs(h) = old
        /\ h.loc.new_confs = new

Recorded(txid, old, new) == ConfirmationUpdate(txid, old, new) \in confirmation_events

C13_AtLeastOnce ==
    \A txid \in Txids, old \in Confirmations, new \in Confirmations :
        Owed(txid, old, new) ~> Recorded(txid, old, new)

\* C14: when a watched address's UTXO list has a tx_hash that is not tracked
\* and the indexer returns the transaction, the monitor stores it, whatever
\* its confirmation count.
NewUtxoStep ==
    /\ \A h \in At("utc_woc") :
          (h.loc.caller = "address" /\ UtcWocGetTransaction(h, TRUE)) =>
             \/ \E g \in MonitorAfter : g.pc = "utc_save" /\ g.loc.txid = h.loc.txid
             \/ h.loc.txid \in DOMAIN blockchain_transactions
    /\ \A h \in At("utc_save") :
          (h.loc.caller = "address" /\ UtcSaveTransaction(h, TRUE)) =>
             h.loc.txid \in DOMAIN blockchain_transactions'

C14_NewUtxoTracked == [][NewUtxoStep]_vars

\* C15: a tracked transaction with stored confirmations c > 0 for which the
\* indexer reports 0 confirmations is polled by the next cycle, which sets
\* its stored confirmations to 0 and records ConfirmationUpdate(c -> 0).
Reorged(txid) ==
    /\ txid \in DOMAIN blockchain_transactions
    /\ blockchain_transactions[txid].confirmations > 0
    /\ woc_confirmations[txid] = 0

Range(seq) == {seq[i] : i \in DOMAIN seq}

ReorgStep ==
    /\ \A h \in At("poll") :
          GetPendingTransactions(h, TRUE) =>
             \A txid \in Txids :
                Reorged(txid) =>
                   \E g \in MonitorAfter :
                      txid \in {g.loc.txid} \cup Range(g.loc.pending)
    /\ \A h \in At("utc_woc") :
          (h.op = "monitor" /\ Reorged(h.loc.txid) /\ old_confs(h) > 0
             /\ UtcWocGetTransaction(h, TRUE)) =>
             \E g \in MonitorAfter : g.pc = "utc_save" /\ g.loc.new_confs = 0
    /\ \A h \in At("utc_save") :
          (h.op = "monitor" /\ UtcSaveTransaction(h, TRUE)) =>
             blockchain_transactions'[h.loc.txid].confirmations = h.loc.new_confs
    /\ \A h \in At("utc_event") :
          (h.op = "monitor" /\ UtcSaveConfirmationEvent(h, TRUE)) =>
             ConfirmationUpdate(h.loc.txid, old_confs(h), h.loc.new_confs)
                \in confirmation_events'

C15_ReorgResets == [][ReorgStep]_vars

\* C16: add_watched_address updates the in-memory watched set and durable
\* storage in one critical section: in no state is an address in one of
\* them and not in the other.
C16_WatchedSetsAgree == watched_addresses = watched_addresses_table

\* C17: get_transaction returns for a txid the confirmations and status of
\* a lookup that bypasses the cache: durable storage, then the indexer.
Bypass(txid) ==
    IF txid \in DOMAIN blockchain_transactions
    THEN [txid |-> txid,
          confirmations |-> blockchain_transactions[txid].confirmations,
          status |-> blockchain_transactions[txid].status]
    ELSE Transaction(txid, woc_confirmations[txid])

CachedAnswerStep ==
    (/\ monitor_served' = monitor_served + 1
     /\ monitor_response'.op = "get_transaction"
     /\ monitor_response'.resp.code = 200) =>
        monitor_response'.resp.body = Bypass(monitor_response'.resp.body.txid)

C17_CacheTransparent == [][CachedAnswerStep]_vars

\* C18: the number of entries of the transaction cache never exceeds the
\* configured capacity.
C18_CacheBounded == Cardinality(DOMAIN tx_cache) <= tx_cache_capacity

\* -------------------------------------------------------------- spv-service
\* C19: for every leaf set and leaf index verify_merkle_proof returns true
\* when siblings is the correct sibling path to root, and false when a
\* sibling or the root is altered.
C19_MerkleProof ==
    (spv_request.kind = "merkle" /\ spv_result # None) =>
        LET path == SiblingPath(spv_request.leaves, spv_request.index)
            root == MerkleRoot(spv_request.leaves)
            correct ==
                /\ \A i \in DOMAIN path :
                      hex_decode(spv_request.siblings[i]) = Some(path[i])
                /\ hex_decode(spv_request.merkle_root) = Some(root)
        IN  spv_result = Some(correct)

\* C20: validate_header_chain accepts every header sequence that is
\* height-contiguous, linked by prev_block, hash-valid and strictly
\* increasing in timestamp, and rejects a sequence in which two headers are
\* swapped, a prev_block is altered or a timestamp does not increase.
\* hash-valid: the header's hash is the reversed double SHA-256 of its
\* serialization, compared as bytes
HashValid(header) ==
    /\ hex_decode(header.prev_block) # None
    /\ hex_decode(header.merkle_root) # None
    /\ hex_decode(header.hash) = Some(Reverse(double_sha256(Serialized(header))))

WellFormedChain(headers) ==
    /\ \A i \in DOMAIN headers : HashValid(headers[i])
    /\ \A i \in 2..Len(headers) :
          /\ headers[i].height = headers[i - 1].height + 1
          /\ headers[i].prev_block = headers[i - 1].hash
          /\ headers[i].timestamp > headers[i - 1].timestamp

C20_HeaderChain ==
    (spv_request.kind = "chain" /\ spv_result # None) =>
        /\ WellFormedChain(spv_request.headers) => spv_result = Some(TRUE)
        /\ spv_request.change.kind \in {"swap", "prev_block", "timestamp"} =>
              spv_result = Some(FALSE)

\* ------------------------------------------------------ claims C21 to C24
\* the confirmations of a transaction of the block: the blocks from its own
\* to the indexer's tip
Buried == woc_get_chain_tip(woc_chain) - BlockHeight + 1

VerifyTransactionResult ==
    spv_response.op = "verify_transaction" /\ spv_response.code = 200

\* C21: a result of verify_transaction for a Merkle-verified transaction
\* carries the confirmations that its block and the chain tip give; its
\* sufficient flag is confirmations >= min_confirmations; it is sufficient
\* exactly when the transaction is Merkle-verified and buried at least
\* min_confirmations blocks deep.
C21_VerifyTransaction ==
    VerifyTransactionResult =>
        LET result == spv_response.body
        IN  /\ result.verified => result.confirmations = Buried
            /\ result.sufficient_confirmations
                 = (result.confirmations >= min_confirmations)
            /\ result.sufficient_confirmations
                 = (result.verified /\ Buried >= min_confirmations)

\* C22: every row of merkle_proofs that is marked verified passes
\* verify_merkle_proof with its own txid, siblings, index and merkle_root.
C22_StoredProofsVerified ==
    \A txid \in DOMAIN merkle_proofs :
        merkle_proofs[txid].verified =>
            verify_merkle_proof(txid, merkle_proofs[txid].siblings,
                                merkle_proofs[txid].tx_index,
                                merkle_proofs[txid].merkle_root)

\* a stored header that the indexer's chain no longer has at its height
PreReorg(height) ==
    /\ height \in DOMAIN block_headers
    /\ woc_get_block_header(woc_chain, height) # Some(block_headers[height])

ReorgsChecked == spv_response.op = "check_reorgs" /\ spv_response.code = 200

\* C23: once check_reorgs has answered, the table holds no header that a
\* reorganisation has replaced on the indexer's chain: get_block_header_handler,
\* which answers from the table when it has the height, cannot return one.
C23_ReorgEvicts ==
    ReorgsChecked => \A height \in 1..MaxTip : ~PreReorg(height)

\* the known tip: the highest stored header; the common ancestor: the highest
\* stored header that the indexer's chain has too, 0 if there is none
Highest(heights) == CHOOSE h \in heights : \A k \in heights : k <= h
KnownTip == block_headers[Highest(DOMAIN block_headers)]
CommonAncestor ==
    Highest({0} \cup {h \in DOMAIN block_headers : ~PreReorg(h)})
AffectedBlocks ==
    [i \in 1..(KnownTip.height - CommonAncestor) |-> CommonAncestor + i]

\* C24: when check_reorgs answers and the indexer's tip hash differs from the
\* known tip's hash it reports a reorganisation, with the depth and the
\* heights back to the common ancestor; when the two are equal it reports none.
C24_DetectReorg ==
    (ReorgsChecked /\ DOMAIN block_headers # {}) =>
        LET report == spv_response.body
            tip == woc_get_block_header(woc_chain, woc_get_chain_tip(woc_chain))[1]
        IN  IF tip.hash # KnownTip.hash
            THEN /\ report.detected
                 /\ report.reorg_depth = Some(KnownTip.height - CommonAncestor)
                 /\ report.affected_blocks = AffectedBlocks
            ELSE ~report.detected

\* ------------------------------------------------------ claims C25 to C28
BuiltTransaction ==
    /\ tx_request.kind \in {"build_p2pkh", "build_funding", "build_commitment",
                            "build_settlement"}
    /\ tx_response.code = 200

\* C25: a transaction returned by build_p2pkh, build_funding, build_commitment
\* or build_settlement has input values that sum to more than its output
\* values (a positive fee is left), and no output below the dust threshold.
C25_FeeAndDust ==
    BuiltTransaction =>
        LET tx == tx_response.body
        IN  /\ SumOf(tx.inputs, "value") > SumOf(tx.outputs, "value")
            /\ \A i \in 1..Len(tx.outputs) : tx.outputs[i].value >= DUST_THRESHOLD

\* the places of list, each once, that selected takes its elements from
IsSubset(selected, list) ==
    \E places \in [1..Len(selected) -> 1..Len(list)] :
        /\ \A i, j \in 1..Len(selected) : places[i] = places[j] => i = j
        /\ \A i \in 1..Len(selected) : selected[i] = list[places[i]]

\* C26: select_utxos, for a list of which some subset sums to at least the
\* target, returns a subset of the list whose total is at least the target;
\* for a list of which no subset does, it returns an error and no selection.
C26_SelectionSufficient ==
    (/\ tx_request.kind = "select_utxos"
     /\ tx_response # NoTxResponse
     /\ validate_amount(tx_request.req.target_amount)) =>
        IF SumOf(tx_request.req.utxos, "satoshis") >= tx_request.req.target_amount
        THEN /\ tx_response.code = 200
             /\ IsSubset(tx_response.body.selected_utxos, tx_request.req.utxos)
             /\ tx_response.body.total_value >= tx_request.req.target_amount
             /\ tx_response.body.total_value
                  = SumOf(tx_response.body.selected_utxos, "satoshis")
        ELSE tx_response.code # 200

\* the fee that estimate_fee answers to a request
FeeOf(req) ==
    estimated_size_bytes(req) * unwrap_or(req.fee_per_byte, default_fee_per_byte)

\* C27: the fee that estimate_fee returns is strictly smaller than the fee
\* for the same request with one more output, with one more input, and with
\* a fee rate raised by one.
C27_FeeMonotone ==
    (/\ tx_request.kind = "estimate_fee"
     /\ tx_response # NoTxResponse
     /\ tx_request.req.input_count # None
     /\ tx_request.req.output_count # None) =>
        LET req == tx_request.req
            fee == tx_response.body.fee_satoshis
        IN  /\ fee < FeeOf([req EXCEPT !.output_count = Some(@[1] + 1)])
            /\ fee < FeeOf([req EXCEPT !.input_count = Some(@[1] + 1)])
            /\ fee < FeeOf([req EXCEPT !.fee_per_byte =
                               Some(unwrap_or(@, default_fee_per_byte) + 1)])

\* C28: two transactions with the same serialization are the same
\* transaction, as they are when a deserialization gives back the
\* transaction that was serialized.
C28_SerializeInjective ==
    (tx_request.kind = "serialize" /\ tx_response # NoTxResponse) =>
        (tx_response.body.first = tx_response.body.second
           => tx_request.req.first = tx_request.req.second)

\* ------------------------------------------------------ claims C29 and C30
\* the requests of (endpoint, key) admitted with a timestamp from..to
AdmittedWithin(endpoint, key, from, to) ==
    Cardinality({ i \in DOMAIN admitted[endpoint, key] :
                    from <= admitted[endpoint, key][i] /\ admitted[endpoint, key][i] <= to })

\* the timestamps recorded for (endpoint, key)
RecordedRequests(endpoint, key) ==
    IF rate_key(endpoint, key) \in DOMAIN entries THEN entries[rate_key(endpoint, key)]
    ELSE <<>>

\* the step is a call of check_rate_limit for (endpoint, key)
Checks(endpoint, key) ==
    /\ limiter_checks' = limiter_checks + 1
    /\ limiter_result'.endpoint = endpoint
    /\ limiter_result'.key = key

\* another (endpoint, key) has the same rate key
SharedRateKey(endpoint, key) ==
    \E other \in DOMAIN limits, other_key \in Keys :
        /\ <<other, other_key>> # <<endpoint, key>>
        /\ rate_key(other, other_key) = rate_key(endpoint, key)

AtMostPerWindow ==
    \A endpoint \in DOMAIN limits, key \in Keys, from \in Epoch..(Epoch + MaxClock) :
        AdmittedWithin(endpoint, key, from, from + limits[endpoint].window_seconds)
          <= limits[endpoint].requests_per_window

LimitStep ==
    \A endpoint \in DOMAIN limits, key \in Keys :
        Checks(endpoint, key) =>
            LET limit == limits[endpoint]
                from == unix_now - limit.window_seconds
                recorded == SelectSeq(RecordedRequests(endpoint, key), LAMBDA ts : ts >= from)
            IN  /\ AdmittedWithin(endpoint, key, from, unix_now) >= limit.requests_per_window
                     => limiter_result'.result = "LimitExceeded"
                /\ \/ Len(recorded) < limit.requests_per_window
                   \/ /\ ~SharedRateKey(endpoint, key)
                      /\ AdmittedWithin(endpoint, key, from, unix_now)
                           < limit.requests_per_window
                     => /\ limiter_result'.result = "Ok"
                        /\ admitted'[endpoint, key] = Append(admitted[endpoint, key], unix_now)

C30_Independent ==
    [][\A endpoint \in DOMAIN limits, key \in Keys :
         Checks(endpoint, key) =>
             /\ \A other \in DOMAIN limits, other_key \in Keys :
                    <<other, other_key>> # <<endpoint, key>>
                      => RecordedRequests(other, other_key)' = RecordedRequests(other, other_key)
             /\ limiter_result'.result = "LimitExceeded"
                  => AdmittedWithin(endpoint, key,
                                    unix_now - limits[endpoint].window_seconds, unix_now)
                       >= limits[endpoint].requests_per_window]_vars

\* ------------------------------------------------------------- claim C31
\* the step is a run of cleanup_old_entries
CleanupRuns ==
    /\ limiter_result' = NoLimiterResult
    /\ UNCHANGED <<unix_now, limiter_checks>>

\* every recorded request of (endpoint, key) is older than its window
AllExpired(endpoint, key) ==
    \A i \in DOMAIN RecordedRequests(endpoint, key) :
        RecordedRequests(endpoint, key)[i] < unix_now - limits[endpoint].window_seconds

\* C31: a run of cleanup_old_entries removes the entry of every
\* (endpoint, key) whose recorded requests have all expired, and when the
\* requests of all of them have expired the entries map is empty afterwards.
C31_CleanupRemovesExpired ==
    [][CleanupRuns =>
         /\ \A endpoint \in DOMAIN limits, key \in Keys :
                AllExpired(endpoint, key) => rate_key(endpoint, key) \notin DOMAIN entries'
         /\ (\A endpoint \in DOMAIN limits, key \in Keys : AllExpired(endpoint, key))
                => DOMAIN entries' = {}]_vars

\* ------------------------------------------------------------- claim C32
\* C32: the sweep is idempotent and restartable: a turn of the loop of any
\* sweep (a second one, one started after another was interrupted, or one
\* that runs beside another) leaves the status and the settlement_txid of
\* every channel that is already Closed as the completed sweep wrote them.
C32_SweepIdempotent ==
    [][SweepTurn =>
         \A cid \in DOMAIN payment_channels :
            payment_channels[cid].status = "Closed" =>
               /\ payment_channels'[cid].status = "Closed"
               /\ payment_channels'[cid].settlement_txid = payment_channels[cid].settlement_txid]_vars

\* ------------------------------------------------------------- claim C37
\* the hour after which the sweep selects the Disputed channel cid
DisputeDeadline(cid) == payment_channels[cid].updated_at + DisputeInterval

\* C37: once a channel is Disputed its dispute deadline is fixed: no step of
\* any request moves the deadline of a channel that is Disputed before the
\* step and after it.
C37_DeadlineFixed ==
    [][\A cid \in DOMAIN payment_channels :
         (payment_channels[cid].status = "Disputed" /\ payment_channels'[cid].status = "Disputed")
            => DisputeDeadline(cid)' = DisputeDeadline(cid)]_vars

\* ------------------------------------------------------------- claim C33
\* a pay request is accepted in the step: its handler has run the stored
\* procedure and suspends before the UPDATE of the processing time
PayAccepted == \E h \in Started : h.op = "pay"

OneRecordPerPayment ==
    /\ (Arrives /\ Rejected("pay")) => channel_payments' = channel_payments
    /\ PayAccepted => Cardinality(channel_payments' \ channel_payments) = 1
    /\ ~(Arrives /\ (PayAccepted \/ Rejected("pay")))
          => Cardinality(channel_payments') = Cardinality(channel_payments)

\* C33: an accepted pay writes exactly one payment record and a rejected pay
\* none, and every record that is written is there unchanged, in all its
\* fields, after every later step of any request.
C33_PaymentRecordImmutable ==
    [][/\ OneRecordPerPayment
       /\ \A p \in channel_payments : p \in channel_payments']_vars

\* ------------------------------------------------------------- claim C34
\* the size that build_p2pkh_transaction estimates for a transaction of
\* n_in inputs and n_out outputs
EstimatedSize(n_in, n_out) == 10 + 1 + (n_in * 148) + 1 + (n_out * 34)

\* C34: a transaction that build_p2pkh returns leaves a fee, its input
\* values less its output values, of at least the fee rate times the
\* estimated size for the inputs and outputs it has.
C34_P2pkhCoversFee ==
    (tx_request.kind = "build_p2pkh" /\ tx_response.code = 200) =>
        LET tx == tx_response.body
            fee_per_byte == unwrap_or(tx_request.req.fee_per_byte, default_fee_per_byte)
        IN  SumOf(tx.inputs, "value") - SumOf(tx.outputs, "value")
              >= fee_per_byte * EstimatedSize(Len(tx.inputs), Len(tx.outputs))

\* ------------------------------------------------------------- claim C38
\* C38: validate_chain reports valid = true only if the indexer returned a
\* header for every height from..to and the whole sequence passes
\* validate_header_chain; if a fetch failed, errors is not empty and valid
\* is false.
C38_ValidateChain ==
    (spv_request.kind = "validate_chain" /\ spv_result # None) =>
        LET result == spv_result[1]
            answers == spv_request.answers
            all_fetched == \A i \in DOMAIN answers : answers[i] # None
        IN  /\ result.valid =>
                 /\ all_fetched
                 /\ result.blocks_validated = result.to_height - result.from_height + 1
                 /\ validate_header_chain([i \in DOMAIN answers |-> BlockHeaderOf(answers[i][1])])
            /\ ~all_fetched => (result.errors # <<>> /\ ~result.valid)

\* ------------------------------------------------------------- claim C35
\* the items of a loop after a step: none was there, or they are the same,
\* or the first has become the item that is processed and the rest is left
TakenInTurn(before, after, current) ==
    \/ before = <<>>
    \/ after = before
    \/ after = Tail(before) /\ current = Head(before)

CycleProceeds ==
    \A h \in BagToSet(monitor_tasks) :
        h.op = "monitor" =>
            /\ MonitorAfter # {}
            /\ \A g \in MonitorAfter :
                  /\ TakenInTurn(h.loc.pending, g.loc.pending, g.loc.txid)
                  /\ TakenInTurn(h.loc.addresses, g.loc.addresses, g.loc.address)
                  /\ TakenInTurn(h.loc.utxos, g.loc.utxos, g.loc.txid)

\* C35: within a poll cycle no step of the loop, whatever the indexer or
\* storage returns in it, drops an item that is still to be processed: the
\* pending txids, the watched addresses and the txids of an address's UTXOs
\* are each taken in turn; and the loop starts a cycle again and again.
C35_ErrorsSkipOneItem ==
    /\ [][CycleProceeds]_vars
    /\ []<>(\E h \in At("poll") : h.op = "monitor")

\* ------------------------------------------------------------------- C36
\* the events recorded for a transaction
EventsOf(txid) == {e \in confirmation_events : e.txid = txid}

\* the stored row of a transaction, if there is one
StoredRow(txid) ==
    IF txid \in DOMAIN blockchain_transactions
    THEN Some(blockchain_transactions[txid])
    ELSE None

\* the tasks that are about to write the row or an event of a transaction
Writing(txid) ==
    {g \in BagToSet(monitor_tasks) : g.pc \in {"utc_save", "utc_event"} /\ g.loc.txid = txid}

\* C36: when the indexer's answer for a tracked transaction is a failure
\* (the request fails, the status is not a success as for a transaction the
\* indexer does not have, or the body does not parse), the monitor leaves the
\* transaction's stored row as it is, records no confirmation event for it,
\* and its update of that transaction is over: no write of it is left to do
C36_FailedFetchWritesNothing ==
    [][\A h \in At("utc_woc") :
         UtcWocGetTransaction(h, FALSE) =>
            /\ StoredRow(h.loc.txid)' = StoredRow(h.loc.txid)
            /\ EventsOf(h.loc.txid)' = EventsOf(h.loc.txid)
            /\ Writing(h.loc.txid)' \subseteq Writing(h.loc.txid)
            /\ h \notin BagToSet(monitor_tasks')]_vars

\* the poll loop has gone on from a tracked transaction whose stored
\* confirmations are not the indexer's, and no event tells of the indexer's
C36_Witness ==
    \E h \in BagToSet(monitor_tasks), txid \in DOMAIN blockchain_transactions :
        /\ h.op = "monitor"
        /\ h.pc \in {"utc_get", "addresses"}
        /\ h.loc.txid # txid
        /\ h.loc.caller \in {"pending", ""}
        /\ blockchain_transactions[txid].confirmations # woc_confirmations[txid]
        /\ blockchain_transactions[txid].confirmations < PendingBelow
        /\ \A e \in EventsOf(txid) : e.new_confirmations # woc_confirmations[txid]
        /\ Writing(txid) = {}

\* ------------------------------------------------------------------- C39
\* the tasks that are inside update_transaction_confirmations for a txid
Updating(txid) ==
    {g \in BagToSet(monitor_tasks) :
        g.pc \in {"utc_get", "utc_woc", "utc_save", "utc_event"} /\ g.loc.txid = txid}

\* the events form a chain in the order s, and the chain ends at the stored
\* confirmation count
IsChain(s, txid) ==
    /\ \A i \in DOMAIN s : i > 1 => s[i].old_confirmations = s[i - 1].new_confirmations
    /\ s # <<>> => /\ txid \in DOMAIN blockchain_transactions
                   /\ s[Len(s)].new_confirmations = blockchain_transactions[txid].confirmations

\* C39: whenever no updater is inside update_transaction_confirmations for a
\* txid, the confirmation events recorded for it form a chain: in the order
\* of their recording each event's old_confirmations is the new_confirmations
\* of the event before it, and the last event's new_confirmations is the
\* stored confirmation count.  The rows are kept without their order, so the
\* property asks for an order of them that is such a chain, which the order of
\* recording would be
C39_EventsChain ==
    \A txid \in Txids :
        Updating(txid) = {} => \E s \in Orders(EventsOf(txid)) : IsChain(s, txid)

\* ------------------------------------------------------------------- C40
\* a tracked transaction that get_pending_transactions looks for
Eligible(txid) ==
    /\ txid \in DOMAIN blockchain_transactions
    /\ \/ blockchain_transactions[txid].status = "pending"
       \/ blockchain_transactions[txid].confirmations < PendingBelow

\* the poll loop has taken the transaction from the pending set and starts
\* its update
Selected(txid) ==
    \E h \in At("utc_get") :
        h.op = "monitor" /\ h.loc.caller = "pending" /\ h.loc.txid = txid

\* the oldest, the second oldest and the newest transaction of the backlog
Polled == {TxidOf(1), TxidOf(2), TxidOf(Backlog)}

\* C40: every tracked transaction that is pending or has fewer than 6
\* confirmations is eventually selected for polling by the poll loop, also
\* when more such transactions are tracked than the 100 most recent that one
\* cycle takes: from a state where it is such a transaction the loop comes
\* to select it, unless it has left the pending set before.  Stated for the
\* oldest, the second oldest and the newest of the tracked transactions
C40_NoStarvation ==
    \A txid \in Polled : Eligible(txid) ~> (Selected(txid) \/ ~Eligible(txid))

====
